---------------------------- MODULE Spec2Model ----------------------------
(***************************************************************************)
(* goTrol: reconciliation of the seven task timestamps of a booking and    *)
(* their submission to the BPJS queue service.                             *)
(*                                                                         *)
(* Time values are Unix milliseconds.  The model's clock starts one day    *)
(* after the epoch, at the local midnight of the service date (Day0), in a *)
(* location whose offset is zero, so that a value's time of day is its     *)
(* remainder modulo one day and every real timestamp is positive.          *)
(*                                                                         *)
(* The database answers every statement: no query or exec of a driver      *)
(* returns an error, except in SpecPoll, where an INSERT of saveTaskIDs    *)
(* may fail.  The BPJS service answers every call with one of Responses.   *)
(***************************************************************************)
EXTENDS Integers, Sequences, FiniteSets, TLC

VARIABLES
    seqIn, seqOut, seqOut2, seqPc,  \* ProcessTasks on its own: input, results, calls made
    seqGen,          \* the generated flags fetchTaskTimes returned with seqIn
    src,             \* the origin records of each booking
    rows,            \* mlite_antrian_referensi_taskid, by nomor_referensi and taskid
    report,          \* report.Store: the last ProcessResult saved for each booking
    pc,              \* where the driver is: idle, in the task loop, or waiting for BPJS
    driver,          \* which driver runs the pass
    cur,             \* entry.NomorReferensi of the pass
    ordered,         \* orderedTasks
    idx,             \* taskNum of the loop (i + 1)
    lastAcceptedMs,
    completedTasks,
    waktuMs,
    waktuMsRetry,
    allSuccess,
    result,          \* result.Tasks
    calls,           \* the UpdateWaktu calls of the pass, in order, with their responses
    startRows,       \* the rows of the booking as they were when the pass started
    passes,          \* passes started so far
    faults,          \* responses other than a plain 200 received so far
    todo,            \* checkAndProcess: the entries of the poll not yet processed
    lost,            \* tasks the service accepted in a call whose response the process never handled
    halt,            \* the process: running, stopChan closed, Start returned, or exited
    signals,         \* SIGINT and SIGTERM delivered so far
    parked,          \* the locals of a second goroutine running processEntry, while it waits
    daily,           \* SaveResult: the DailyData loadDailyData returned
    file             \* the results in the JSON file of the day, in order

seqVars == <<seqIn, seqOut, seqOut2, seqPc, seqGen>>

passVars == <<pc, driver, cur, ordered, idx, lastAcceptedMs, completedTasks,
              waktuMs, waktuMsRetry, allSuccess, result, calls, startRows>>

engineVars == <<src, rows, report, passVars, passes, faults>>

parVars == <<parked, daily, file>>

lifeVars == <<todo, lost, halt, signals, parVars>>

vars == <<seqVars, engineVars, lifeVars>>

-----------------------------------------------------------------------------
(* time.Time and *time.Time *)

SecondMs == 1000
MinuteMs == 60 * SecondMs
HourMs == 60 * MinuteMs
DayMs == 24 * HourMs

\* the nil *time.Time
Nil == -1

Slots == 1..7

\* the indices of the non-nil slots of a timeline
Present(t) == {i \in Slots : t[i] # Nil}

\* the instant h:m:s on the day d days after the service date
At(d, h, m, s) == (d + 1) * DayMs + h * HourMs + m * MinuteMs + s * SecondMs

\* t.Hour()
Hour(t) == (t % DayMs) \div HourMs

\* time.Date(t.Year(), t.Month(), t.Day(), 8, 0, 0, 0, t.Location())
EightOClock(t) == (t - (t % DayMs)) + 8 * HourMs

\* int(d.Minutes()): the float of the duration in minutes, truncated toward zero
IntMinutes(d) == IF d >= 0 THEN d \div MinuteMs ELSE -((-d) \div MinuteMs)

\* rand.Intn(5) + 1
Draw5 == 1..5

-----------------------------------------------------------------------------
(* AutoOrderProcessor.ProcessTasks, one operator per numbered step.  A step *)
(* that draws a random number yields the set of its possible results.      *)

\* Step 1: tasks 6 and 7 equal and not nil: clear both
ClearEqualPair(t) ==
    IF t[6] # Nil /\ t[7] # Nil /\ t[6] = t[7]
    THEN [t EXCEPT ![6] = Nil, ![7] = Nil]
    ELSE t

FloorAllToEight(t) ==
    [i \in Slots |-> IF t[i] # Nil THEN EightOClock(t[i]) ELSE t[i]]

\* Step 2: minimum time 08:00
FloorAll(t) ==
    [i \in Slots |-> IF t[i] # Nil /\ Hour(t[i]) < 8 THEN EightOClock(t[i]) ELSE t[i]]

\* the clamp both ordering steps share: prev + r minutes, but when that reaches
\* next, prev + max(1, int(minutes from prev to next) - 1) minutes
ClampedAfter(prev, r, next) ==
    LET newTime == prev + r * MinuteMs
        maxAllowed == IntMinutes(next - prev) - 1
    IN IF next # Nil /\ newTime >= next
       THEN prev + (IF maxAllowed < 1 THEN 1 ELSE maxAllowed) * MinuteMs
       ELSE newTime

OrderTask4NoCap(t) ==
    IF t[3] # Nil /\ t[4] # Nil /\ t[4] <= t[3]
    THEN {[t EXCEPT ![4] = t[3] + r * MinuteMs] : r \in Draw5}
    ELSE {t}

\* Step 3: task 4 must be greater than task 3
OrderTask4(t) ==
    IF t[3] # Nil /\ t[4] # Nil /\ t[4] <= t[3]
    THEN {[t EXCEPT ![4] = ClampedAfter(t[3], r, t[5])] : r \in Draw5}
    ELSE {t}

\* Step 4, one iteration of the loop (i is the 1-based index of curr)
OrderSlot(t, i) ==
    IF t[i-1] # Nil /\ t[i] # Nil /\ t[i] <= t[i-1]
    THEN {[t EXCEPT ![i] = ClampedAfter(t[i-1], r, IF i + 1 <= 7 THEN t[i+1] ELSE Nil)]
             : r \in Draw5}
    ELSE {t}

\* Step 4: for i := 1; i < 7; i++
RECURSIVE OrderFrom(_, _)
OrderFrom(t, i) ==
    IF i > 7 THEN {t}
    ELSE UNION {OrderFrom(u, i + 1) : u \in OrderSlot(t, i)}

\* Step 5 with && written for ||: clears only when both are already empty
ClearHalfPairBothNil(t) ==
    IF t[6] = Nil /\ t[7] = Nil
    THEN [t EXCEPT ![6] = Nil, ![7] = Nil]
    ELSE t

\* Step 5: task 6 or 7 empty: clear both
ClearHalfPair(t) ==
    IF t[6] = Nil \/ t[7] = Nil
    THEN [t EXCEPT ![6] = Nil, ![7] = Nil]
    ELSE t

\* Step 6: task 6 or 7 equals task 1 or 2: clear both
ClearCollidingPair(t) ==
    IF t[6] # Nil /\ t[7] # Nil
       /\ (\/ (t[1] # Nil /\ (t[6] = t[1] \/ t[7] = t[1]))
           \/ (t[2] # Nil /\ (t[6] = t[2] \/ t[7] = t[2])))
    THEN [t EXCEPT ![6] = Nil, ![7] = Nil]
    ELSE t

\* the timelines ProcessTasks(tasks) can return, over all random draws
ProcessTasks(tasks) ==
    {ClearCollidingPair(ClearHalfPair(v)) :
        v \in UNION {OrderFrom(u, 2) : u \in OrderTask4(FloorAll(ClearEqualPair(tasks)))}}

-----------------------------------------------------------------------------
(* TimeToMillis, MillisToTime, FormatTime *)

\* TimeToMillis: nil is 0, otherwise t.UnixMilli()
TimeToMillis(t) == IF t = Nil THEN 0 ELSE t

\* MillisToTime: 0 is nil, otherwise time.UnixMilli(ms)
MillisToTime(ms) == IF ms = 0 THEN Nil ELSE ms

\* the empty string FormatTime returns for nil
NoWaktu == -1

\* FormatTime and t.Format("2006-01-02 15:04:05"): the text names the second,
\* so it is modelled by the count of whole seconds
FormatTime(t) == IF t = Nil THEN NoWaktu ELSE t \div SecondMs

\* maxInt64
maxInt64(a, b) == IF a > b THEN a ELSE b

-----------------------------------------------------------------------------
(* The bookings, their origin records and the table                        *)
(* mlite_antrian_referensi_taskid                                          *)

\* nomor_referensi of the bookings of the model
Refs == {"R1", "R2"}

\* no row for (nomor_referensi, taskid)
NoRow == [waktu |-> 0, status |-> "none", gen |-> FALSE]

HasRow(r) == r.status # "none"

NoRows == [k \in Slots |-> NoRow]

\* getCompletedTaskIDs: the taskids whose row has status 'Sudah'
getCompletedTaskIDs(tbl) == {k \in Slots : tbl[k].status = "Sudah"}

\* getMaxSentTime: COALESCE(MAX(waktu), 0) over the rows with status 'Sudah'
getMaxSentTimeNone(tbl) == 0

getMaxSentTime(tbl) ==
    LET sent == {tbl[k].waktu : k \in getCompletedTaskIDs(tbl)}
    IN IF sent = {} THEN 0 ELSE CHOOSE m \in sent : \A x \in sent : x <= m

\* updateTaskStatus: UPDATE ... SET status = ? WHERE nomor_referensi = ? AND taskid = ?
updateTaskStatus(tbl, k, status) ==
    IF HasRow(tbl[k]) THEN [tbl EXCEPT ![k].status = status] ELSE tbl

\* updateTaskWaktu: UPDATE ... SET waktu = ? WHERE ... AND status != 'Sudah'
updateTaskWaktu(tbl, k, ms) ==
    IF HasRow(tbl[k]) /\ tbl[k].status # "Sudah"
    THEN [tbl EXCEPT ![k].waktu = ms]
    ELSE tbl

\* Watcher.saveTaskIDs: skips the completed and the nil slots; INSERT ... 'Belum'
\* ON DUPLICATE KEY UPDATE waktu, keterangan (only IF status != 'Sudah')
WatcherSaveTaskIDs(tbl, tasks, generated) ==
    [k \in Slots |->
        IF k \in getCompletedTaskIDs(tbl) \/ tasks[k] = Nil THEN tbl[k]
        ELSE IF ~HasRow(tbl[k])
             THEN [waktu |-> TimeToMillis(tasks[k]), status |-> "Belum", gen |-> generated[k]]
             ELSE IF tbl[k].status # "Sudah"
                  THEN [tbl[k] EXCEPT !.waktu = TimeToMillis(tasks[k]), !.gen = generated[k]]
                  ELSE tbl[k]]

\* BatchHandler.saveTaskIDs: DELETE every row of the booking, then INSERT the
\* non-nil slots with status 'Belum'
BatchSaveTaskIDs(tbl, tasks, generated) ==
    [k \in Slots |->
        IF tasks[k] = Nil THEN NoRow
        ELSE [waktu |-> TimeToMillis(tasks[k]), status |-> "Belum", gen |-> generated[k]]]

-----------------------------------------------------------------------------
(* Watcher.getTaskTimesFromSources and Watcher.fetchTaskTimes              *)

NoFlags == [k \in Slots |-> FALSE]

\* base + offset minutes for every offset of lo..hi, flagged generated
Generated(tg, k, base, lo, hi) ==
    {[tasks |-> [tg.tasks EXCEPT ![k] = base + o * MinuteMs],
      generated |-> [tg.generated EXCEPT ![k] = TRUE]] : o \in lo..hi}

\* fallback for task 3: task 2, else task 1, else the default time, plus 1..5 minutes
GenerateTask3(tg, def) ==
    LET t == tg.tasks
        base == IF t[2] # Nil THEN t[2] ELSE IF t[1] # Nil THEN t[1] ELSE def
    IN IF t[3] = Nil /\ base # Nil THEN Generated(tg, 3, base, 1, 5) ELSE {tg}

\* fallback for task 4: task 3 plus 1..10 minutes, clamped below task 5;
\* else the default time plus 3..7 minutes
GenerateTask4(tg, def) ==
    LET t == tg.tasks IN
    IF t[4] # Nil THEN {tg}
    ELSE IF t[3] # Nil
         THEN {[tasks |-> [t EXCEPT ![4] = ClampedAfter(t[3], o, t[5])],
                generated |-> [tg.generated EXCEPT ![4] = TRUE]] : o \in 1..10}
         ELSE IF def # Nil THEN Generated(tg, 4, def, 3, 7) ELSE {tg}

GenerateTask5FromTask3(tg, def) ==
    LET t == tg.tasks IN
    IF t[5] # Nil THEN {tg}
    ELSE IF t[3] # Nil THEN Generated(tg, 5, t[3], 10, 25)
    ELSE IF t[4] # Nil THEN Generated(tg, 5, t[4], 10, 25)
    ELSE IF def # Nil THEN Generated(tg, 5, def, 10, 20)
    ELSE {tg}

\* fallback for task 5: task 4, else task 3, plus 10..25 minutes; else the
\* default time plus 10..20 minutes
GenerateTask5(tg, def) ==
    LET t == tg.tasks IN
    IF t[5] # Nil THEN {tg}
    ELSE IF t[4] # Nil THEN Generated(tg, 5, t[4], 10, 25)
    ELSE IF t[3] # Nil THEN Generated(tg, 5, t[3], 10, 25)
    ELSE IF def # Nil THEN Generated(tg, 5, def, 10, 20)
    ELSE {tg}

\* getTaskTimesFromSources.  s.def is defaultTime (jam_reg of reg_periksa, or
\* 08:00 of tanggal_periksa); s.obs[k] is what the origin record of task k
\* holds (mlite_antrian_loket, mutasi_berkas, pemeriksaan_ralan, resep_obat)
getTaskTimesFromSources(s) ==
    LET read == [k \in Slots |->
                    IF k \in {1, 2} /\ s.obs[k] = Nil THEN s.def ELSE s.obs[k]]
        tg0 == [tasks |-> read, generated |-> NoFlags]
    IN UNION {GenerateTask5(tg4, s.def) :
                tg4 \in UNION {GenerateTask4(tg3, s.def) : tg3 \in GenerateTask3(tg0, s.def)}}

\* getExistingTaskIDs, as fetchTaskTimes reads it: every row (whatever its
\* status) with taskid 1..7 and waktu > 0
ExistingTasks(tbl) ==
    [k \in Slots |->
        IF HasRow(tbl[k]) /\ tbl[k].waktu > 0 THEN MillisToTime(tbl[k].waktu) ELSE Nil]

fetchTaskTimesSourceFlags(tbl, s) ==
    LET tasks == ExistingTasks(tbl) IN
    {[tasks |-> [k \in Slots |->
                    IF tasks[k] = Nil /\ sg.tasks[k] # Nil THEN sg.tasks[k] ELSE tasks[k]],
      generated |-> sg.generated]
        : sg \in getTaskTimesFromSources(s)}

\* fetchTaskTimes: the rows first, the sources for the slots still nil
fetchTaskTimes(tbl, s) ==
    LET tasks == ExistingTasks(tbl) IN
    {[tasks |-> [k \in Slots |->
                    IF tasks[k] = Nil /\ sg.tasks[k] # Nil THEN sg.tasks[k] ELSE tasks[k]],
      generated |-> [k \in Slots |->
                    tasks[k] = Nil /\ sg.tasks[k] # Nil /\ sg.generated[k]]]
        : sg \in getTaskTimesFromSources(s)}

-----------------------------------------------------------------------------
(* bpjs.Client.UpdateWaktu: the request and what comes back                 *)

\* metadata.message of a response, and the phrases strings.Contains looks for
\* in strings.ToLower(message)
ContainsSudahAda(m) == m = "Data Sudah Ada"

ContainsTidakBoleh(m) == m = "Waktu tidak boleh kurang atau sama"

\* err.Error() of a request that failed in transport or did not parse
TransportError == [err |-> TRUE, code |-> 0, message |-> "failed to send request"]

\* a parsed BPJSResponse, metadata.code and metadata.message: one response
\* for each branch a sender tells apart
Parsed ==
    {[err |-> FALSE, code |-> 200, message |-> "Ok"],
     [err |-> FALSE, code |-> 208, message |-> "Data Sudah Ada"],
     [err |-> FALSE, code |-> 201, message |-> "Data Sudah Ada"],
     [err |-> FALSE, code |-> 201, message |-> "Waktu tidak boleh kurang atau sama"],
     [err |-> FALSE, code |-> 201, message |-> "Gagal"]}

Responses == Parsed \cup {TransportError}

\* every pairing of the codes and the messages above, and the failed request
AnyResponses ==
    [err : {FALSE}, code : {200, 201, 208},
     message : {"Ok", "Data Sudah Ada", "Waktu tidak boleh kurang atau sama", "Gagal"}]
    \cup {TransportError}

PlainOk == [err |-> FALSE, code |-> 200, message |-> "Ok"]

\* the response of a call still in flight
NoResp == [err |-> FALSE, code |-> 0, message |-> ""]

\* BPJSResponse.IsSuccess
IsSuccess(resp) == resp.code = 200

\* one hour: delta := int64(3_600_000)
RetryDeltaMs == 3600000

\* the local guard's step: lastAcceptedMs + 60_000
BumpMs == 60000

-----------------------------------------------------------------------------
(* What the four senders do differently in their task loop                 *)

SkipsCompletedNever(d) == FALSE

\* the loop `continue`s on completedTasks[taskNum]
SkipsCompleted(d) == d = "watcher"

\* the loop bumps waktuMs above lastAcceptedMs before sending
HasLocalGuard(d) == d \in {"watcher", "batchUpdate", "retry3"}

ClassifyFirstNoDuplicate(d, resp) ==
    IF resp.err THEN "error"
    ELSE IF IsSuccess(resp) THEN "success"
    ELSE IF d # "batchAll" /\ ContainsTidakBoleh(resp.message) THEN "conflict"
    ELSE "failed"

\* the response is classified; the value names the branch taken
ClassifyFirst(d, resp) ==
    IF resp.err THEN "error"
    ELSE IF IsSuccess(resp) THEN "success"
    ELSE IF d = "watcher" /\ resp.code = 208 /\ ContainsSudahAda(resp.message) THEN "duplicate"
    ELSE IF d # "batchAll" /\ ContainsTidakBoleh(resp.message) THEN "conflict"
    ELSE "failed"

ClassifyRetryNoDuplicate(d, resp2) ==
    IF ~resp2.err /\ IsSuccess(resp2) THEN "success" ELSE "failed"

ClassifyRetry(d, resp2) ==
    IF ~resp2.err /\ IsSuccess(resp2) THEN "success"
    ELSE IF d = "watcher" /\ ~resp2.err /\ resp2.code = 208 /\ ContainsSudahAda(resp2.message)
         THEN "duplicate"
    ELSE "failed"

\* taskResult.Waktu as first set: the watcher and BatchAll format orderedTasks[i],
\* BatchUpdateWaktu and BatchRetryTask3 format waktuMs
FirstWaktu(d, orderedI, ms) ==
    IF d \in {"watcher", "batchAll"} THEN FormatTime(orderedI) ELSE FormatTime(MillisToTime(ms))

\* taskNum after this one: BatchRetryTask3 sends task 3 only
AfterTask(d, k) == IF d = "retry3" THEN 8 ELSE k + 1

\* a missing key of result.Tasks
NoTaskResult == [Waktu |-> NoWaktu, BPJSStatus |-> "none", BPJSCode |-> 0, Message |-> ""]

NoTasks == [k \in Slots |-> NoTaskResult]

\* no ProcessResult saved for the booking
NoReport ==
    [AutoOrderDone |-> FALSE, UpdateWaktuDone |-> FALSE, Tasks |-> NoTasks,
     Error |-> "", saved |-> FALSE]

-----------------------------------------------------------------------------
(* adjustForward (Watcher and BatchHandler hold the same text)              *)

\* the loop from index k on; at is [ordered, tbl, t], t the running base
RECURSIVE AdjustFrom(_, _)
AdjustFrom(at, k) ==
    IF k > 7 THEN {[ordered |-> at.ordered, tbl |-> at.tbl]}
    ELSE IF at.ordered[k] = Nil THEN AdjustFrom(at, k + 1)
    ELSE IF TimeToMillis(at.ordered[k]) <= at.t
         THEN UNION {
                LET newT == ClampedAfter(at.t, r, IF k + 1 <= 7 THEN at.ordered[k+1] ELSE Nil)
                IN AdjustFrom([ordered |-> [at.ordered EXCEPT ![k] = newT],
                               tbl |-> updateTaskWaktu(at.tbl, k, newT),
                               t |-> newT], k + 1)
                : r \in Draw5}
         ELSE AdjustFrom([at EXCEPT !.t = at.ordered[k]], k + 1)

adjustForwardNoPersist(tbl, o, taskNum, baseMs) ==
    {[ordered |-> a.ordered, tbl |-> tbl]
        : a \in AdjustFrom([ordered |-> o, tbl |-> tbl, t |-> baseMs], taskNum + 1)}

\* adjustForward(entry, ordered, startIdx, baseMs), startIdx being taskNum - 1:
\* the timelines it can return, each with the table as updateTaskWaktu left it
adjustForward(tbl, o, taskNum, baseMs) ==
    AdjustFrom([ordered |-> o, tbl |-> tbl, t |-> baseMs], taskNum + 1)

\* nextMinMs: the least value of the later non-nil slots, 0 when there is none
nextMinMs(o, taskNum) ==
    LET later == {TimeToMillis(o[k]) : k \in {j \in Slots : j > taskNum /\ o[j] # Nil}}
    IN IF later = {} THEN 0 ELSE CHOOSE m \in later : \A x \in later : m <= x

BeforeRetryEvery(tbl, o, taskNum, retryMs) ==
    {[ordered |-> [k \in Slots |->
                      IF k > taskNum /\ o[k] # Nil
                      THEN retryMs + (k - taskNum) * MinuteMs ELSE o[k]],
      tbl |-> tbl]}

\* the retry branch up to the second UpdateWaktu: the timelines and tables it
\* can leave
BeforeRetry(tbl, o, taskNum, retryMs) ==
    IF nextMinMs(o, taskNum) > 0 /\ retryMs >= nextMinMs(o, taskNum)
    THEN adjustForward(tbl, o, taskNum, retryMs)
    ELSE {[ordered |-> o, tbl |-> tbl]}

-----------------------------------------------------------------------------
(* The Sequencer on its own: ProcessTasks applied to an arbitrary timeline, *)
(* and applied again to its own result.                                    *)

\* the values an input slot is drawn from: before 08:00, two values less than
\* five minutes apart (the second not on a whole minute), and one close to midnight
SeqTimes == {At(0, 7, 50, 0), At(0, 9, 0, 0), At(0, 9, 3, 30), At(0, 23, 58, 0)}

NoTimeline == [i \in Slots |-> Nil]

\* any timeline over SeqTimes, ProcessTasks not yet applied
SeqInput ==
    /\ seqIn \in [Slots -> SeqTimes \cup {Nil}]
    /\ seqOut = NoTimeline
    /\ seqOut2 = NoTimeline
    /\ seqPc = "input"
    /\ seqGen = NoFlags

\* ProcessTasks not under study
SeqIdle ==
    /\ seqIn = NoTimeline
    /\ seqOut = NoTimeline
    /\ seqOut2 = NoTimeline
    /\ seqPc = "idle"
    /\ seqGen = NoFlags

Normalize ==
    /\ seqPc = "input"
    /\ \E r \in ProcessTasks(seqIn) : seqOut' = r
    /\ seqPc' = "once"
    /\ UNCHANGED <<seqIn, seqOut2, seqGen, engineVars, lifeVars>>

Renormalize ==
    /\ seqPc = "once"
    /\ \E r \in ProcessTasks(seqOut) : seqOut2' = r
    /\ seqPc' = "twice"
    /\ UNCHANGED <<seqIn, seqOut, seqGen, engineVars, lifeVars>>

SeqNext == Normalize \/ Renormalize


-----------------------------------------------------------------------------
(* The drivers.  A pass handles one booking: it resolves and orders the    *)
(* timeline, saves it, then walks the tasks; the pass stops at each        *)
(* UpdateWaktu call until the response is there.                            *)

\* passes a run of the model may start
MaxPasses == 2

\* responses other than a plain 200 a run of the model may receive
MaxFaults == 2

\* the origin records of a booking registered at 08:00 whose five first tasks
\* were all recorded (loket, mutasi_berkas, pemeriksaan_ralan), no prescription yet
Recorded == [k \in Slots |->
                CASE k = 1 -> At(0, 8, 0, 0)
                  [] k = 2 -> At(0, 8, 5, 0)
                  [] k = 3 -> At(0, 9, 0, 0)
                  [] k = 4 -> At(0, 9, 30, 0)
                  [] k = 5 -> At(0, 9, 45, 0)
                  [] OTHER -> Nil]

\* resep_obat: jam_peresepan (task 6) and jam (task 7)
Resep == <<At(0, 10, 30, 0), At(0, 10, 45, 0)>>

\* the bookings of the day: every task recorded, or mutasi_berkas.dikirim
\* (task 3) not recorded
SrcScenarios ==
    {[def |-> At(0, 8, 0, 0), obs |-> Recorded],
     [def |-> At(0, 8, 0, 0), obs |-> [Recorded EXCEPT ![3] = Nil]]}

\* the locals of a goroutine that has not called processEntry
NoPass ==
    [pc |-> "idle", driver |-> "none", cur |-> "R1", ordered |-> NoTimeline, idx |-> 0,
     lastAcceptedMs |-> 0, completedTasks |-> {}, waktuMs |-> 0, waktuMsRetry |-> 0,
     allSuccess |-> TRUE, result |-> NoTasks, calls |-> <<>>, startRows |-> NoRows,
     daily |-> <<>>]

\* one goroutine only, no result in the file of the day
ParIdle ==
    /\ parked = NoPass
    /\ daily = <<>>
    /\ file = <<>>

\* no pass started, the table empty
EngineStart(s) ==
    /\ src = s
    /\ rows = [e \in DOMAIN s |-> NoRows]
    /\ report = [e \in DOMAIN s |-> NoReport]
    /\ pc = "idle"
    /\ driver = "none"
    /\ cur = CHOOSE e \in DOMAIN s : TRUE
    /\ ordered = NoTimeline
    /\ idx = 0
    /\ lastAcceptedMs = 0
    /\ completedTasks = {}
    /\ waktuMs = 0
    /\ waktuMsRetry = 0
    /\ allSuccess = TRUE
    /\ result = NoTasks
    /\ calls = <<>>
    /\ startRows = NoRows
    /\ passes = 0
    /\ faults = 0
    /\ todo = <<>>
    /\ lost = {}
    /\ halt = "run"
    /\ signals = 0
    /\ ParIdle

\* one booking today
EngineInit == \E s \in [{"R1"} -> SrcScenarios] : EngineStart(s)

SeqInit ==
    /\ SeqInput
    /\ EngineStart([e \in {"R1"} |-> [def |-> At(0, 8, 0, 0), obs |-> Recorded]])

\* ProcessTasks applied to arbitrary timelines, the drivers not running
SpecSeq == SeqInit /\ [][SeqNext]_vars

\* fetchPendingEntries: a booking of today with status_kirim 'Sudah' is
\* selected when it has no row yet or fewer than five of its tasks 1..5 are 'Sudah'
fetchPendingEntries ==
    {e \in DOMAIN src : Cardinality({k \in 1..5 : rows[e][k].status = "Sudah"}) < 5}

\* fetchEntriesWithTaskIDs: the bookings that have a row
fetchEntriesWithTaskIDs == {e \in DOMAIN src : \E k \in Slots : HasRow(rows[e][k])}

\* fetchEntriesFailedTask3ByReport: the bookings whose saved result has task 3
\* failed or in error; when there is none, fetchEntriesFailedTask3: the
\* bookings whose row of task 3 is not 'Sudah'
fetchRetryTask3Entries ==
    LET byReport == {e \in DOMAIN src : report[e].saved
                        /\ report[e].Tasks[3].BPJSStatus \in {"failed", "error"}}
        byRows == {e \in DOMAIN src : HasRow(rows[e][3]) /\ rows[e][3].status # "Sudah"}
    IN IF byReport # {} THEN byReport ELSE byRows

\* the resolved and ordered timelines of a booking: fetchTaskTimes, then ProcessTasks
Timelines(e) ==
    UNION {{[ordered |-> o, generated |-> tg.generated] : o \in ProcessTasks(tg.tasks)}
              : tg \in fetchTaskTimes(rows[e], src[e])}

\* the locals of a pass as its task loop starts
EnterLoop(e, d, o, saved, first) ==
    /\ driver' = d
    /\ cur' = e
    /\ ordered' = o
    /\ rows' = [rows EXCEPT ![e] = saved]
    /\ startRows' = rows[e]
    /\ lastAcceptedMs' = IF HasLocalGuard(d) THEN getMaxSentTime(saved) ELSE 0
    /\ completedTasks' = IF SkipsCompleted(d) THEN getCompletedTaskIDs(saved) ELSE {}
    /\ idx' = first
    /\ waktuMs' = 0
    /\ waktuMsRetry' = 0
    /\ allSuccess' = TRUE
    /\ result' = NoTasks
    /\ calls' = <<>>
    /\ passes' = passes + 1
    /\ UNCHANGED <<src, report, faults, seqVars>>

\* Watcher.processEntry up to its task loop
processEntry(e) ==
    /\ pc = "idle"
    /\ passes < MaxPasses
    /\ \E tl \in Timelines(e) :
          EnterLoop(e, "watcher", tl.ordered,
                    WatcherSaveTaskIDs(rows[e], tl.ordered, tl.generated), 1)
    /\ pc' = "loop"

\* Watcher.checkAndProcess: processEntry for a booking fetchPendingEntries returns
checkAndProcess(e) ==
    /\ e \in fetchPendingEntries
    /\ processEntry(e)
    /\ UNCHANGED lifeVars

\* BatchHandler.BatchUpdateWaktu, one booking, up to its task loop
BatchUpdateWaktu(e) ==
    /\ pc = "idle"
    /\ passes < MaxPasses
    /\ e \in fetchEntriesWithTaskIDs
    /\ \E tl \in Timelines(e) :
          EnterLoop(e, "batchUpdate", tl.ordered,
                    BatchSaveTaskIDs(rows[e], tl.ordered, tl.generated), 1)
    /\ pc' = "loop"
    /\ UNCHANGED lifeVars

\* BatchHandler.BatchAll, one booking, up to its task loop
BatchAll(e) ==
    /\ pc = "idle"
    /\ passes < MaxPasses
    /\ \E tl \in Timelines(e) :
          /\ Present(tl.ordered) # {}
          /\ EnterLoop(e, "batchAll", tl.ordered,
                       BatchSaveTaskIDs(rows[e], tl.ordered, tl.generated), 1)
    /\ pc' = "loop"
    /\ UNCHANGED lifeVars
    /\ UNCHANGED lifeVars

\* BatchHandler.BatchRetryTask3, one booking, up to the sending of task 3
BatchRetryTask3(e) ==
    /\ pc = "idle"
    /\ passes < MaxPasses
    /\ e \in fetchRetryTask3Entries
    /\ \E tl \in Timelines(e) :
          /\ EnterLoop(e, "retry3", tl.ordered,
                       BatchSaveTaskIDs(rows[e], tl.ordered, tl.generated), 3)
          /\ pc' = IF tl.ordered[3] = Nil THEN "idle" ELSE "loop"
    /\ UNCHANGED lifeVars

\* BatchHandler.BatchAutoOrder, one booking: order and save, nothing is sent
BatchAutoOrder(e) ==
    /\ pc = "idle"
    /\ passes < MaxPasses
    /\ \E tl \in Timelines(e) :
          /\ Present(tl.ordered) # {}
          /\ rows' = [rows EXCEPT ![e] = BatchSaveTaskIDs(rows[e], tl.ordered, tl.generated)]
          /\ report' = [report EXCEPT ![e] =
                [AutoOrderDone |-> TRUE, UpdateWaktuDone |-> FALSE, saved |-> TRUE,
                 Error |-> "",
                 Tasks |-> [k \in Slots |->
                    IF tl.ordered[k] = Nil THEN NoTaskResult
                    ELSE [Waktu |-> FormatTime(tl.ordered[k]), BPJSStatus |-> "",
                          BPJSCode |-> 0, Message |-> ""]]]]
    /\ passes' = passes + 1
    /\ UNCHANGED <<src, passVars, faults, seqVars, lifeVars>>

\* the local guard: the value the first UpdateWaktu of a task carries
FirstWaktuMsNoGuard(d, v, last) == v

FirstWaktuMs(d, v, last) ==
    IF HasLocalGuard(d) /\ last > 0 /\ v <= last THEN last + BumpMs ELSE v

\* waktuMsRetry := maxInt64(waktuMs, lastAcceptedMs) + delta
RetryWaktuMsFromLast(ms, last) == last + RetryDeltaMs

RetryWaktuMs(ms, last) == maxInt64(ms, last) + RetryDeltaMs

\* the call in flight gets its response
Answered(cs, resp) == [cs EXCEPT ![Len(cs)].resp = resp]

SkipSlotAfterFailure ==
    /\ pc = "loop"
    /\ idx \in completedTasks \cup (Slots \ Present(ordered))
                \cup (IF allSuccess THEN {} ELSE Slots)
    /\ result' = IF driver = "watcher"
                 THEN [result EXCEPT ![idx] =
                         [Waktu |-> NoWaktu, BPJSStatus |-> "skipped", BPJSCode |-> 0,
                          Message |-> IF idx \in completedTasks THEN "Already Sudah" ELSE ""]]
                 ELSE result
    /\ idx' = AfterTask(driver, idx)
    /\ UNCHANGED <<src, rows, report, pc, driver, cur, ordered, lastAcceptedMs,
                   completedTasks, waktuMs, waktuMsRetry, allSuccess, calls, startRows,
                   passes, faults, seqVars, lifeVars>>

\* the task loop `continue`s: the task is completed, or its slot is nil
SkipSlot ==
    /\ pc = "loop"
    /\ idx \in completedTasks \cup (Slots \ Present(ordered))
    /\ result' = IF driver = "watcher"
                 THEN [result EXCEPT ![idx] =
                         [Waktu |-> NoWaktu, BPJSStatus |-> "skipped", BPJSCode |-> 0,
                          Message |-> IF idx \in completedTasks THEN "Already Sudah" ELSE ""]]
                 ELSE result
    /\ idx' = AfterTask(driver, idx)
    /\ UNCHANGED <<src, rows, report, pc, driver, cur, ordered, lastAcceptedMs,
                   completedTasks, waktuMs, waktuMsRetry, allSuccess, calls, startRows,
                   passes, faults, seqVars, lifeVars>>

\* the task loop from a pending slot to its call: waktuMs, the local guard,
\* and the bumped value written to the row
GuardSlot ==
    /\ pc = "loop"
    /\ idx \in Present(ordered) \ completedTasks
    /\ LET v == TimeToMillis(ordered[idx])
           ms == FirstWaktuMs(driver, v, lastAcceptedMs)
       IN /\ waktuMs' = ms
          /\ rows' = IF ms # v
                     THEN [rows EXCEPT ![cur] = updateTaskWaktu(rows[cur], idx, ms)]
                     ELSE rows
    /\ pc' = "send"
    /\ UNCHANGED <<src, report, driver, cur, ordered, idx, lastAcceptedMs, completedTasks,
                   waktuMsRetry, allSuccess, result, calls, startRows, passes, faults,
                   seqVars, lifeVars>>

SendFirstNoWait ==
    /\ pc = "send"
    /\ calls' = Append(calls, [ref |-> cur, task |-> idx, waktu |-> waktuMs, resp |-> NoResp])
    /\ pc' = "loop"
    /\ idx' = AfterTask(driver, idx)
    /\ UNCHANGED <<src, rows, report, driver, cur, ordered, lastAcceptedMs,
                   completedTasks, waktuMs, waktuMsRetry, allSuccess, result, startRows,
                   passes, faults, seqVars, lifeVars>>

\* bpjsClient.UpdateWaktu(entry.KodeBooking, taskNum, waktuMs), the first call
SendFirst ==
    /\ pc = "send"
    /\ calls' = Append(calls, [ref |-> cur, task |-> idx, waktu |-> waktuMs, resp |-> NoResp])
    /\ pc' = "wait1"
    /\ UNCHANGED <<src, rows, report, driver, cur, ordered, idx, lastAcceptedMs,
                   completedTasks, waktuMs, waktuMsRetry, allSuccess, result, startRows,
                   passes, faults, seqVars, lifeVars>>

\* a response counts against MaxFaults unless it is the plain 200
Admitted(resp) ==
    /\ resp \in AnyResponses
    /\ faults + (IF resp = PlainOk THEN 0 ELSE 1) <= MaxFaults
    /\ faults' = faults + (IF resp = PlainOk THEN 0 ELSE 1)

\* the first response, every branch but the retry: the task ends error,
\* success (200, or 208 "sudah ada" in the watcher) or failed
RecvFirst(resp) ==
    /\ pc = "wait1"
    /\ Admitted(resp)
    /\ ClassifyFirst(driver, resp) # "conflict"
    /\ LET class == ClassifyFirst(driver, resp)
           accepted == class \in {"success", "duplicate"}
       IN /\ rows' = IF accepted
                     THEN [rows EXCEPT ![cur] = updateTaskStatus(rows[cur], idx, "Sudah")]
                     ELSE rows
          /\ lastAcceptedMs' = IF accepted /\ HasLocalGuard(driver) THEN waktuMs
                               ELSE lastAcceptedMs
          /\ allSuccess' = (allSuccess /\ accepted)
          /\ result' = [result EXCEPT ![idx] =
                [Waktu |-> FirstWaktu(driver, ordered[idx], waktuMs),
                 BPJSStatus |-> IF accepted THEN "success" ELSE class,
                 BPJSCode |-> resp.code,
                 Message |-> IF class = "success" THEN "" ELSE resp.message]]
    /\ calls' = Answered(calls, resp)
    /\ idx' = AfterTask(driver, idx)
    /\ pc' = "loop"
    /\ UNCHANGED <<src, report, driver, cur, ordered, completedTasks, waktuMs,
                   waktuMsRetry, startRows, passes, seqVars, lifeVars>>

\* the first response says "tidak boleh kurang atau sama": the retry value,
\* adjustForward when the retry value reaches a later task, then the second
\* UpdateWaktu
RecvConflict(resp) ==
    /\ pc = "wait1"
    /\ Admitted(resp)
    /\ ClassifyFirst(driver, resp) = "conflict"
    /\ LET retry == RetryWaktuMs(waktuMs, lastAcceptedMs)
       IN /\ waktuMsRetry' = retry
          /\ \E br \in BeforeRetry(rows[cur], ordered, idx, retry) :
                /\ ordered' = br.ordered
                /\ rows' = [rows EXCEPT ![cur] = br.tbl]
          /\ calls' = Append(Answered(calls, resp),
                             [ref |-> cur, task |-> idx, waktu |-> retry, resp |-> NoResp])
    /\ pc' = "wait2"
    /\ UNCHANGED <<src, report, driver, cur, idx, lastAcceptedMs, completedTasks, waktuMs,
                   allSuccess, result, startRows, passes, seqVars, lifeVars>>

\* the response of the retry: success (200, or 208 "sudah ada" in the
\* watcher) or failed; nothing is sent again
RecvRetryAgain(resp2) ==
    /\ pc = "wait2"
    /\ Admitted(resp2)
    /\ calls' = Append(Answered(calls, resp2),
                       [ref |-> cur, task |-> idx, waktu |-> waktuMsRetry, resp |-> NoResp])
    /\ UNCHANGED <<src, rows, report, pc, driver, cur, ordered, idx, lastAcceptedMs,
                   completedTasks, waktuMs, waktuMsRetry, allSuccess, result, startRows,
                   passes, seqVars, lifeVars>>

RecvRetry(resp2) ==
    /\ pc = "wait2"
    /\ Admitted(resp2)
    /\ LET class == ClassifyRetry(driver, resp2)
           accepted == class \in {"success", "duplicate"}
           resp == calls[Len(calls) - 1].resp
           saved == IF class = "success"
                    THEN updateTaskWaktu(rows[cur], idx, waktuMsRetry)
                    ELSE rows[cur]
       IN /\ rows' = IF accepted
                     THEN [rows EXCEPT ![cur] = updateTaskStatus(saved, idx, "Sudah")]
                     ELSE rows
          /\ lastAcceptedMs' = IF accepted THEN waktuMsRetry ELSE lastAcceptedMs
          /\ allSuccess' = (allSuccess /\ accepted)
          /\ result' = [result EXCEPT ![idx] =
                [Waktu |-> IF class = "success" THEN FormatTime(MillisToTime(waktuMsRetry))
                           ELSE FirstWaktu(driver, ordered[idx], waktuMs),
                 BPJSStatus |-> IF accepted THEN "success" ELSE "failed",
                 BPJSCode |-> IF accepted THEN resp2.code ELSE resp.code,
                 Message |-> IF class = "success" THEN ""
                             ELSE IF class = "duplicate" THEN resp2.message
                             ELSE resp.message]]
    /\ calls' = Answered(calls, resp2)
    /\ idx' = AfterTask(driver, idx)
    /\ pc' = "loop"
    /\ UNCHANGED <<src, report, driver, cur, ordered, completedTasks, waktuMs,
                   waktuMsRetry, startRows, passes, seqVars, lifeVars>>

EndPassAlwaysDone ==
    /\ pc = "loop"
    /\ idx > 7
    /\ report' = [report EXCEPT ![cur] =
            [AutoOrderDone |-> TRUE, UpdateWaktuDone |-> TRUE,
             Tasks |-> result, Error |-> "", saved |-> TRUE]]
    /\ pc' = "idle"
    /\ UNCHANGED <<src, rows, driver, cur, ordered, idx, lastAcceptedMs, completedTasks,
                   waktuMs, waktuMsRetry, allSuccess, result, calls, startRows,
                   passes, faults, seqVars, lifeVars>>

\* after the loop: result.UpdateWaktuDone = allSuccess, reportStore.SaveResult
EndPass ==
    /\ pc = "loop"
    /\ idx > 7
    /\ report' = [report EXCEPT ![cur] =
            [AutoOrderDone |-> TRUE, UpdateWaktuDone |-> allSuccess,
             Tasks |-> result, Error |-> "", saved |-> TRUE]]
    /\ pc' = "idle"
    /\ UNCHANGED <<src, rows, driver, cur, ordered, idx, lastAcceptedMs, completedTasks,
                   waktuMs, waktuMsRetry, allSuccess, result, calls, startRows,
                   passes, faults, seqVars, lifeVars>>

\* the pharmacy records the prescription of a booking (a row of resep_obat)
ResepArrives(e) ==
    /\ pc = "idle"
    /\ src[e].obs[6] = Nil
    /\ src[e].obs[7] = Nil
    /\ src' = [src EXCEPT ![e].obs[6] = Resep[1], ![e].obs[7] = Resep[2]]
    /\ UNCHANGED <<rows, report, passVars, passes, faults, seqVars, lifeVars>>

\* the steps of a pass once its task loop has started
PassStep ==
    \/ SkipSlot
    \/ GuardSlot
    \/ SendFirst
    \/ \E resp \in Responses : RecvFirst(resp)
    \/ \E resp \in Responses : RecvConflict(resp)
    \/ \E resp \in Responses : RecvRetry(resp)
    \/ EndPass

Batch(e) ==
    \/ BatchAutoOrder(e)
    \/ BatchUpdateWaktu(e)
    \/ BatchAll(e)
    \/ BatchRetryTask3(e)

Next ==
    \/ \E e \in DOMAIN src : checkAndProcess(e)
    \/ \E e \in DOMAIN src : Batch(e)
    \/ \E e \in DOMAIN src : ResepArrives(e)
    \/ PassStep

Init == EngineInit /\ SeqIdle

\* the watcher polling, the batch commands run on demand
Spec == Init /\ [][Next]_vars

\* processEntry on any booking, selected by fetchPendingEntries or not
EntryNext ==
    \/ \E e \in DOMAIN src : processEntry(e) /\ UNCHANGED lifeVars
    \/ \E e \in DOMAIN src : ResepArrives(e)
    \/ PassStep

SpecEntry == Init /\ [][EntryNext]_vars

\* a pass is one goroutine running to its end, and the client's timeout ends
\* every call: a started pass keeps taking steps
SpecEntryFair == SpecEntry /\ WF_vars(PassStep)

\* the orders in which a query may return the bookings of S (ORDER BY
\* rp.jam_reg, the registration times of the bookings being any)
Orderings(S) ==
    {f \in [1..Cardinality(S) -> S] : \A i, j \in 1..Cardinality(S) : f[i] = f[j] => i = j}

\* Watcher.checkAndProcess up to its loop: the entries fetchPendingEntries returns
PollFetch ==
    /\ pc = "idle"
    /\ todo = <<>>
    /\ halt \in {"run", "stopping"}
    /\ passes < MaxPasses
    /\ fetchPendingEntries # {}
    /\ todo' \in Orderings(fetchPendingEntries)
    /\ UNCHANGED <<seqVars, engineVars, lost, halt, signals, parVars>>

\* the loop of checkAndProcess: processEntry for the next entry of the poll
PollEntry ==
    /\ todo # <<>>
    /\ halt \in {"run", "stopping"}
    /\ processEntry(Head(todo))
    /\ todo' = Tail(todo)
    /\ UNCHANGED <<lost, halt, signals, parVars>>

\* the text of the error of a failed database statement
DbError == "db error"

\* the rows after saveTaskIDs failed at the INSERT of slot n: the slots
\* before n are saved, the others are as they were
SavedBefore(tbl, tasks, generated, n) ==
    [k \in Slots |-> IF k < n THEN WatcherSaveTaskIDs(tbl, tasks, generated)[k] ELSE tbl[k]]

\* Watcher.processEntry when saveTaskIDs returns an error: result.Error is
\* set, the result is saved, processEntry returns
processEntrySaveFails(e) ==
    /\ pc = "idle"
    /\ passes < MaxPasses
    /\ \E tl \in Timelines(e) :
          \E n \in Present(tl.ordered) \ getCompletedTaskIDs(rows[e]) :
             rows' = [rows EXCEPT ![e] = SavedBefore(rows[e], tl.ordered, tl.generated, n)]
    /\ report' = [report EXCEPT ![e] =
            [AutoOrderDone |-> TRUE, UpdateWaktuDone |-> FALSE, Tasks |-> NoTasks,
             Error |-> DbError, saved |-> TRUE]]
    /\ cur' = e
    /\ driver' = "watcher"
    /\ calls' = <<>>
    /\ result' = NoTasks
    /\ passes' = passes + 1
    /\ UNCHANGED <<src, pc, ordered, idx, lastAcceptedMs, completedTasks, waktuMs,
                   waktuMsRetry, allSuccess, startRows, faults, seqVars>>

PollSaveFailsReturns ==
    /\ todo # <<>>
    /\ halt \in {"run", "stopping"}
    /\ processEntrySaveFails(Head(todo))
    /\ todo' = <<>>
    /\ UNCHANGED <<lost, halt, signals, parVars>>

\* the loop of checkAndProcess when saveTaskIDs fails for the next entry
PollSaveFails ==
    /\ todo # <<>>
    /\ halt \in {"run", "stopping"}
    /\ processEntrySaveFails(Head(todo))
    /\ todo' = Tail(todo)
    /\ UNCHANGED <<lost, halt, signals, parVars>>

\* two bookings today, one with every task recorded, one without task 3
PollInit ==
    /\ SeqIdle
    /\ EngineStart([e \in Refs |->
            [def |-> At(0, 8, 0, 0),
             obs |-> IF e = "R1" THEN Recorded ELSE [Recorded EXCEPT ![3] = Nil]]])

PollNext ==
    \/ PollFetch
    \/ PollEntry
    \/ PollSaveFails
    \/ PassStep

\* the watcher polling two bookings, an INSERT of saveTaskIDs failing at will
SpecPoll == PollInit /\ [][PollNext]_vars

\* code 208 "Data Sudah Ada": the service has the task already
Duplicate208 == [err |-> FALSE, code |-> 208, message |-> "Data Sudah Ada"]

\* a service that accepts every submission, answering 200 or, for a task it
\* has already, 208; the transport fails at will
ServiceAnswers ==
    {PlainOk, TransportError} \cup (IF <<cur, idx>> \in lost THEN {Duplicate208} ELSE {})

\* the process is alive: Start has not returned, os.Exit was not called
Running == halt \in {"run", "stopping"}

\* the task loop of a pass against that service
ServedStep ==
    \/ Running /\ SkipSlot
    \/ Running /\ GuardSlot
    \/ Running /\ SendFirst
    \/ Running /\ \E resp \in ServiceAnswers : RecvFirst(resp)
    \/ Running /\ EndPass

\* the steps of the watcher's goroutine
WatcherStep ==
    \/ PollFetch
    \/ PollEntry
    \/ ServedStep

ConvergeNext ==
    \/ WatcherStep
    \/ \E e \in DOMAIN src : ResepArrives(e) /\ todo = <<>>

\* the watcher polling one booking for ever, the service accepting every
\* submission, the failures of the transport being MaxFaults at most
SpecConverge == Init /\ [][ConvergeNext]_vars /\ WF_vars(WatcherStep)

\* signals a run of the model may deliver
MaxSignals == 1

\* SIGINT or SIGTERM is delivered: the handler's goroutine calls
\* watcher.Stop(), which closes stopChan
Stop ==
    /\ halt = "run"
    /\ signals < MaxSignals
    /\ signals' = signals + 1
    /\ halt' = "stopping"
    /\ UNCHANGED <<seqVars, engineVars, todo, lost, parVars>>

\* the handler's goroutine then calls os.Exit(0): the process ends wherever
\* the watcher's goroutine is; a call in flight was accepted by the service
\* or not
Exit ==
    /\ halt = "stopping"
    /\ halt' = "exited"
    /\ \/ lost' = lost
       \/ pc = "wait1" /\ lost' = lost \cup {<<cur, idx>>}
    /\ UNCHANGED <<seqVars, engineVars, todo, signals, parVars>>

\* Watcher.Start, case <-w.stopChan: the loop returns
StartReturns ==
    /\ halt = "stopping"
    /\ pc = "idle"
    /\ todo = <<>>
    /\ halt' = "returned"
    /\ UNCHANGED <<seqVars, engineVars, todo, lost, signals, parVars>>

\* `gotrol run` again: a new process, a new Watcher, nothing in progress
Restart ==
    /\ halt \in {"exited", "returned"}
    /\ halt' = "run"
    /\ pc' = "idle"
    /\ todo' = <<>>
    /\ UNCHANGED <<src, rows, report, driver, cur, ordered, idx, lastAcceptedMs,
                   completedTasks, waktuMs, waktuMsRetry, allSuccess, result, calls,
                   startRows, passes, faults, seqVars, lost, signals, parVars>>

LifeNext ==
    \/ WatcherStep
    \/ Stop
    \/ Exit
    \/ StartReturns
    \/ Restart
    \/ \E e \in DOMAIN src : ResepArrives(e) /\ todo = <<>>

\* the service run, stopped by signals and started again
SpecLife ==
    Init /\ [][LifeNext]_vars /\ WF_vars(WatcherStep) /\ WF_vars(StartReturns \/ Restart)

\* the call of task k of booking R1, sent with the recorded value and failed
\* in transport
FailedCall(k) ==
    [ref |-> "R1", task |-> k, waktu |-> TimeToMillis(Recorded[k]), resp |-> TransportError]

\* the result of that task
FailedResult(k) ==
    [Waktu |-> FormatTime(Recorded[k]), BPJSStatus |-> "error", BPJSCode |-> 0,
     Message |-> TransportError.message]

\* the first pass over a booking whose five first tasks were recorded has
\* reached task 3, the calls of tasks 1 and 2 having failed in transport:
\* nothing is confirmed, lastAcceptedMs is 0
CascadeInit ==
    /\ SeqIdle
    /\ src = [e \in {"R1"} |-> [def |-> At(0, 8, 0, 0), obs |-> Recorded]]
    /\ rows = [e \in {"R1"} |-> WatcherSaveTaskIDs(NoRows, Recorded, NoFlags)]
    /\ report = [e \in {"R1"} |-> NoReport]
    /\ pc = "loop"
    /\ driver = "watcher"
    /\ cur = "R1"
    /\ ordered = Recorded
    /\ idx = 3
    /\ lastAcceptedMs = 0
    /\ completedTasks = {}
    /\ waktuMs = TimeToMillis(Recorded[2])
    /\ waktuMsRetry = 0
    /\ allSuccess = FALSE
    /\ result = [NoTasks EXCEPT ![1] = FailedResult(1), ![2] = FailedResult(2)]
    /\ calls = <<FailedCall(1), FailedCall(2)>>
    /\ startRows = NoRows
    /\ passes = 1
    /\ faults = 0
    /\ todo = <<>>
    /\ lost = {}
    /\ halt = "run"
    /\ signals = 0
    /\ ParIdle

\* the rest of that pass, MaxFaults more responses being other than a plain 200
SpecCascade == CascadeInit /\ [][PassStep]_vars

\* the same pass against a service that may pair any code with any message
ClassifyStep ==
    \/ SkipSlot
    \/ GuardSlot
    \/ SendFirst
    \/ \E resp \in AnyResponses : RecvFirst(resp)
    \/ \E resp \in AnyResponses : RecvConflict(resp)
    \/ \E resp \in AnyResponses : RecvRetry(resp)
    \/ EndPass

SpecClassify == CascadeInit /\ [][ClassifyStep]_vars

\* the first UpdateWaktu of task k of booking R1, sent with the recorded value
\* and answered 200
AcceptedCall(k) ==
    [ref |-> "R1", task |-> k, waktu |-> TimeToMillis(Recorded[k]), resp |-> PlainOk]

\* the taskResult of such a call
AcceptedResult(k) ==
    [Waktu |-> FormatTime(Recorded[k]), BPJSStatus |-> "success", BPJSCode |-> 200,
     Message |-> ""]

\* the taskResult of a slot that is nil
NilResult == [Waktu |-> NoWaktu, BPJSStatus |-> "skipped", BPJSCode |-> 0, Message |-> ""]

\* the first pass of a booking whose five first tasks were recorded has ended:
\* the calls of tasks 1 and 3 failed in transport, those of tasks 2, 4 and 5
\* were answered 200.  Passes and responses are counted from here
ResumeInit ==
    /\ SeqIdle
    /\ src = [e \in {"R1"} |-> [def |-> At(0, 8, 0, 0), obs |-> Recorded]]
    /\ rows = [e \in {"R1"} |->
                 [k \in Slots |->
                     IF k \in {2, 4, 5}
                     THEN [waktu |-> TimeToMillis(Recorded[k]), status |-> "Sudah", gen |-> FALSE]
                     ELSE WatcherSaveTaskIDs(NoRows, Recorded, NoFlags)[k]]]
    /\ result = [k \in Slots |->
                   IF k \in {1, 3} THEN FailedResult(k)
                   ELSE IF k \in {2, 4, 5} THEN AcceptedResult(k) ELSE NilResult]
    /\ report = [e \in {"R1"} |->
                   [AutoOrderDone |-> TRUE, UpdateWaktuDone |-> FALSE, Tasks |-> result,
                    Error |-> "", saved |-> TRUE]]
    /\ calls = <<FailedCall(1), AcceptedCall(2), FailedCall(3), AcceptedCall(4),
                 AcceptedCall(5)>>
    /\ pc = "idle"
    /\ driver = "watcher"
    /\ cur = "R1"
    /\ ordered = Recorded
    /\ idx = 8
    /\ lastAcceptedMs = TimeToMillis(Recorded[5])
    /\ completedTasks = {}
    /\ waktuMs = TimeToMillis(Recorded[5])
    /\ waktuMsRetry = 0
    /\ allSuccess = FALSE
    /\ startRows = NoRows
    /\ passes = 0
    /\ faults = 0
    /\ todo = <<>>
    /\ lost = {}
    /\ halt = "run"
    /\ signals = 0
    /\ ParIdle

\* the watcher polling from there
ResumeNext ==
    \/ \E e \in DOMAIN src : checkAndProcess(e)
    \/ PassStep

SpecResume == ResumeInit /\ [][ResumeNext]_vars

-----------------------------------------------------------------------------
(* The Resolver and the Sequencer on their own: fetchTaskTimes on the      *)
(* origin records and the rows of one booking, then ProcessTasks.          *)

\* a timeline with the given values in slots 3, 4 and 5 and nothing else
Middle(t3, t4, t5) ==
    [k \in Slots |-> CASE k = 3 -> t3 [] k = 4 -> t4 [] k = 5 -> t5 [] OTHER -> Nil]

\* how long after mutasi_berkas.dikirim the examination was recorded
Task5Gaps == {30 * MinuteMs, 5 * MinuteMs, 90 * SecondMs, MinuteMs}

\* the origin records of the bookings resolved
ResolveSources ==
    {\* registered 07:50, loket 07:50 to 07:55, nothing recorded afterwards
     [def |-> At(0, 7, 50, 0),
      obs |-> [k \in Slots |-> CASE k = 1 -> At(0, 7, 50, 0) [] k = 2 -> At(0, 7, 55, 0)
                                 [] OTHER -> Nil]],
     \* no loket record; dikirim and diterima both 09:00, examined 09:30
     [def |-> At(0, 8, 0, 0), obs |-> Middle(At(0, 9, 0, 0), At(0, 9, 0, 0), At(0, 9, 30, 0))],
     \* every record there is, the prescription included
     [def |-> At(0, 8, 0, 0), obs |-> [Recorded EXCEPT ![6] = Resep[1], ![7] = Resep[2]]],
     \* tanggal_periksa unreadable and no reg_periksa: no default time, no
     \* loket time; only the examination is known
     [def |-> Nil, obs |-> Middle(Nil, Nil, At(0, 9, 45, 0))]}
    \cup {[def |-> At(0, 8, 0, 0), obs |-> Middle(At(0, 9, 0, 0), Nil, At(0, 9, 0, 0) + g)]
             : g \in Task5Gaps}
    \* diterima 08:30 recorded before dikirim 09:00
    \cup {[def |-> At(0, 8, 0, 0),
           obs |-> Middle(At(0, 9, 0, 0), At(0, 8, 30, 0), At(0, 9, 0, 0) + g)]
             : g \in Task5Gaps}

\* the rows an earlier pass left for a booking without dikirim: task 3 was
\* generated (08:05 plus 3 minutes) and every task is still 'Belum'
PersistedRows ==
    WatcherSaveTaskIDs(NoRows, [Recorded EXCEPT ![3] = At(0, 8, 8, 0)],
                       [NoFlags EXCEPT ![3] = TRUE])

\* a booking to resolve: its origin records and its rows
ResolveCases ==
    {[src |-> s, tbl |-> NoRows] : s \in ResolveSources}
    \cup {[src |-> [def |-> At(0, 8, 0, 0), obs |-> [Recorded EXCEPT ![3] = Nil]],
           tbl |-> PersistedRows]}

ResolveInit ==
    /\ \E c \in ResolveCases :
          /\ src = [e \in {"R1"} |-> c.src]
          /\ rows = [e \in {"R1"} |-> c.tbl]
    /\ seqIn = NoTimeline
    /\ seqOut = NoTimeline
    /\ seqOut2 = NoTimeline
    /\ seqGen = NoFlags
    /\ seqPc = "source"
    /\ report = [e \in {"R1"} |-> NoReport]
    /\ pc = "idle"
    /\ driver = "none"
    /\ cur = "R1"
    /\ ordered = NoTimeline
    /\ idx = 0
    /\ lastAcceptedMs = 0
    /\ completedTasks = {}
    /\ waktuMs = 0
    /\ waktuMsRetry = 0
    /\ allSuccess = TRUE
    /\ result = NoTasks
    /\ calls = <<>>
    /\ startRows = NoRows
    /\ passes = 0
    /\ faults = 0
    /\ todo = <<>>
    /\ lost = {}
    /\ halt = "run"
    /\ signals = 0
    /\ ParIdle

\* tasks, generated, err := w.fetchTaskTimes(entry)
Resolve ==
    /\ seqPc = "source"
    /\ \E tg \in fetchTaskTimes(rows[cur], src[cur]) :
          /\ seqIn' = tg.tasks
          /\ seqGen' = tg.generated
    /\ seqPc' = "input"
    /\ UNCHANGED <<seqOut, seqOut2, engineVars, lifeVars>>

\* orderedTasks := w.processor.ProcessTasks(tasks) follows
ResolveNext == Resolve \/ Normalize

SpecResolve == ResolveInit /\ [][ResolveNext]_vars

-----------------------------------------------------------------------------
(* Two goroutines calling processEntry, each for a booking of its own; one  *)
(* takes steps while the locals of the other are kept in parked.  SaveResult *)
(* is loadDailyData (under the read lock) and then saveDailyData (under the *)
(* write lock): two steps.                                                  *)

\* the locals of the goroutine taking steps
Locals ==
    [pc |-> pc, driver |-> driver, cur |-> cur, ordered |-> ordered, idx |-> idx,
     lastAcceptedMs |-> lastAcceptedMs, completedTasks |-> completedTasks,
     waktuMs |-> waktuMs, waktuMsRetry |-> waktuMsRetry, allSuccess |-> allSuccess,
     result |-> result, calls |-> calls, startRows |-> startRows, daily |-> daily]

\* the scheduler runs the other goroutine
Switch ==
    /\ pc # "idle" \/ parked.pc # "idle"
    /\ parked' = Locals
    /\ pc' = parked.pc
    /\ driver' = parked.driver
    /\ cur' = parked.cur
    /\ ordered' = parked.ordered
    /\ idx' = parked.idx
    /\ lastAcceptedMs' = parked.lastAcceptedMs
    /\ completedTasks' = parked.completedTasks
    /\ waktuMs' = parked.waktuMs
    /\ waktuMsRetry' = parked.waktuMsRetry
    /\ allSuccess' = parked.allSuccess
    /\ result' = parked.result
    /\ calls' = parked.calls
    /\ startRows' = parked.startRows
    /\ daily' = parked.daily
    /\ UNCHANGED <<src, rows, report, passes, faults, seqVars, todo, lost, halt, signals, file>>

\* processEntry(e) is called in the goroutine taking steps; the other one is
\* not in a pass of the same booking
ParStart(e) ==
    /\ parked.pc = "idle" \/ parked.cur # e
    /\ processEntry(e)
    /\ UNCHANGED lifeVars

\* daily.Results after the loop and the append of SaveResult
Upsert(d, ref, res) ==
    IF \E i \in 1..Len(d) : d[i].ref = ref
    THEN LET i == CHOOSE j \in 1..Len(d) :
                     d[j].ref = ref /\ \A k \in 1..(j - 1) : d[k].ref # ref
         IN [d EXCEPT ![i] = [ref |-> ref, res |-> res]]
    ELSE Append(d, [ref |-> ref, res |-> res])

\* what the store returns for a booking: its first result in the file
Stored(f, e) ==
    IF \E i \in 1..Len(f) : f[i].ref = e
    THEN f[CHOOSE j \in 1..Len(f) : f[j].ref = e /\ \A k \in 1..(j - 1) : f[k].ref # e].res
    ELSE NoReport

\* after the loop: reportStore.SaveResult(result) up to the return of loadDailyData
LoadDaily ==
    /\ pc = "loop"
    /\ idx > 7
    /\ daily' = file
    /\ pc' = "save"
    /\ UNCHANGED <<src, rows, report, driver, cur, ordered, idx, lastAcceptedMs,
                   completedTasks, waktuMs, waktuMsRetry, allSuccess, result, calls,
                   startRows, passes, faults, seqVars, todo, lost, halt, signals,
                   parked, file>>

\* the rest of SaveResult: the result replaces that of the same nomor_referensi
\* in the loaded data or is appended to it, and saveDailyData writes the file
SaveDaily ==
    /\ pc = "save"
    /\ file' = Upsert(daily, cur,
                      [AutoOrderDone |-> TRUE, UpdateWaktuDone |-> allSuccess,
                       Tasks |-> result, Error |-> "", saved |-> TRUE])
    /\ report' = [e \in DOMAIN report |-> Stored(file', e)]
    /\ pc' = "idle"
    /\ UNCHANGED <<src, rows, driver, cur, ordered, idx, lastAcceptedMs, completedTasks,
                   waktuMs, waktuMsRetry, allSuccess, result, calls, startRows, passes,
                   faults, seqVars, todo, lost, halt, signals, parked, daily>>

\* the service answers 200 or the request fails
ParNext ==
    \/ \E e \in DOMAIN src : ParStart(e)
    \/ SkipSlot
    \/ GuardSlot
    \/ SendFirst
    \/ \E resp \in {PlainOk, TransportError} : RecvFirst(resp)
    \/ LoadDaily
    \/ SaveDaily
    \/ Switch

SpecPar == PollInit /\ [][ParNext]_vars

-----------------------------------------------------------------------------
(* Watcher.processEntry and the loop of BatchHandler.BatchUpdateWaktu side  *)
(* by side: two bookings with the same origin records and the same rows,    *)
(* the watcher handling R1 in one goroutine while the batch command handles *)
(* R2; parked keeps the locals of the one that is not taking steps.         *)

\* the rows an earlier run left for a booking with every task recorded: all
\* 'Belum' (saved, nothing accepted yet), or tasks 1..4 'Sudah' and task 5 'Belum'
AgreeRows ==
    LET saved == WatcherSaveTaskIDs(NoRows, Recorded, NoFlags)
    IN {saved,
        [k \in Slots |-> IF k <= 4 THEN [saved[k] EXCEPT !.status = "Sudah"] ELSE saved[k]]}

AgreeInit ==
    /\ SeqIdle
    /\ src = [e \in Refs |-> [def |-> At(0, 8, 0, 0), obs |-> Recorded]]
    /\ \E tbl \in AgreeRows : rows = [e \in Refs |-> tbl]
    /\ report = [e \in Refs |-> NoReport]
    /\ pc = "idle"
    /\ driver = "none"
    /\ cur = "R1"
    /\ ordered = NoTimeline
    /\ idx = 0
    /\ lastAcceptedMs = 0
    /\ completedTasks = {}
    /\ waktuMs = 0
    /\ waktuMsRetry = 0
    /\ allSuccess = TRUE
    /\ result = NoTasks
    /\ calls = <<>>
    /\ startRows = NoRows
    /\ passes = 0
    /\ faults = 0
    /\ todo = <<>>
    /\ lost = {}
    /\ halt = "run"
    /\ signals = 0
    /\ ParIdle

\* the watcher calls processEntry for R1
AgreeWatcher ==
    /\ driver = "none"
    /\ parked.driver = "none"
    /\ processEntry("R1")
    /\ UNCHANGED lifeVars

\* the batch command reaches R2 in its loop over fetchEntriesWithTaskIDs
AgreeBatch ==
    /\ driver = "none"
    /\ parked.driver = "watcher"
    /\ BatchUpdateWaktu("R2")

\* the other goroutine is run when this one is between two bookings or has
\* just entered its task loop
AgreeSwitch ==
    /\ pc = "idle" \/ (pc = "loop" /\ idx = 1 /\ calls = <<>>)
    /\ Switch

AgreeNext ==
    \/ AgreeWatcher
    \/ AgreeBatch
    \/ AgreeSwitch
    \/ PassStep

SpecAgree == AgreeInit /\ [][AgreeNext]_vars

-----------------------------------------------------------------------------
(* TimeToMillis and MillisToTime on their own: seqIn holds *time.Time       *)
(* values, seqOut their milliseconds, seqOut2 the times made of those.      *)

\* time.UnixMilli(0), 1970-01-01T00:00:00Z
Epoch == 0

\* the values converted: nil, the epoch, the millisecond after it, a morning
\* of the service date
ConvTimes == {Nil, Epoch, Epoch + 1, At(0, 8, 0, 0)}

ConvInit ==
    /\ EngineInit
    /\ seqIn \in [Slots -> ConvTimes]
    /\ seqOut = NoTimeline
    /\ seqOut2 = NoTimeline
    /\ seqGen = NoFlags
    /\ seqPc = "time"

\* ms := TimeToMillis(t), slot by slot
ToMillis ==
    /\ seqPc = "time"
    /\ seqOut' = [k \in Slots |-> TimeToMillis(seqIn[k])]
    /\ seqPc' = "millis"
    /\ UNCHANGED <<seqIn, seqOut2, seqGen, engineVars, lifeVars>>

\* t := MillisToTime(ms), slot by slot
ToTime ==
    /\ seqPc = "millis"
    /\ seqOut2' = [k \in Slots |-> MillisToTime(seqOut[k])]
    /\ seqPc' = "back"
    /\ UNCHANGED <<seqIn, seqOut, seqGen, engineVars, lifeVars>>

ConvNext == ToMillis \/ ToTime

SpecConv == ConvInit /\ [][ConvNext]_vars

-----------------------------------------------------------------------------
(* Properties of the Sequencer *)

\* C1: after ProcessTasks, every pair of present slots i < j (adjacent or not)
\* has value[i] < value[j].
C1_SeqMonotonic ==
    seqPc # "input" =>
        \A i, j \in Present(seqOut) : i < j => seqOut[i] < seqOut[j]

\* C2: after ProcessTasks, every present slot has a time of day of 08:00:00 or
\* later, also the slots that the ordering steps moved after the floor step.
C2_SeqFloor ==
    seqPc # "input" => \A i \in Present(seqOut) : Hour(seqOut[i]) >= 8

\* C3: after ProcessTasks, slots 6 and 7 are both present or both absent.
C3_SeqPair ==
    /\ seqPc # "input" => (seqOut[6] = Nil <=> seqOut[7] = Nil)
    /\ seqPc = "twice" => (seqOut2[6] = Nil <=> seqOut2[7] = Nil)

\* C3 witness: an input holding slot 6 without slot 7 came out with neither.
C3_Witness ==
    /\ seqPc = "once"
    /\ seqIn[6] # Nil /\ seqIn[7] = Nil
    /\ seqOut[6] = Nil /\ seqOut[7] = Nil

\* C4: ProcessTasks applied to its own result changes no slot.
C4_SeqIdempotent ==
    seqPc = "twice" => seqOut2 = seqOut

-----------------------------------------------------------------------------
(* Properties of the submission engine *)

\* the table of the booking has rows and every one of them is 'Sudah'
AllConfirmed(tbl) ==
    /\ \E k \in Slots : HasRow(tbl[k])
    /\ \A k \in Slots : HasRow(tbl[k]) => tbl[k].status = "Sudah"

\* the pass sent nothing, left the rows as they were and, once over, reported success
Untouched ==
    /\ calls = <<>>
    /\ rows[cur] = startRows
    /\ pc = "idle" => report[cur].UpdateWaktuDone

\* C5, every row of the booking 'Sudah': a processEntry pass over a booking
\* whose rows are all 'Sudah' issues no UpdateWaktu call, leaves every row
\* unchanged and reports UpdateWaktuDone = true
C5_AllRowsConfirmed ==
    (driver = "watcher" /\ AllConfirmed(startRows)) => Untouched

\* C5, the rows covering the timeline: a processEntry pass over a booking
\* whose rows are all 'Sudah' and cover every slot of the timeline the pass
\* resolves issues no UpdateWaktu call, leaves every row unchanged and
\* reports UpdateWaktuDone = true
C5_Idempotent ==
    (/\ driver = "watcher"
     /\ AllConfirmed(startRows)
     /\ \A k \in Present(ordered) : startRows[k].status = "Sudah") => Untouched

C5_Witness ==
    /\ pc = "idle"
    /\ driver = "watcher"
    /\ passes = 2
    /\ AllConfirmed(startRows)
    /\ Present(ordered) # {}
    /\ \A k \in Present(ordered) : startRows[k].status = "Sudah"
    /\ report[cur].saved
    /\ report[cur].UpdateWaktuDone
    /\ \A k \in Present(ordered) : report[cur].Tasks[k].BPJSStatus = "skipped"

\* C6: no step of any driver removes a row that is 'Sudah', changes its
\* status or changes its waktu
C6_ConfirmedImmutable ==
    [][\A e \in DOMAIN rows, k \in Slots :
          rows[e][k].status = "Sudah" =>
              /\ rows'[e][k].status = "Sudah"
              /\ rows'[e][k].waktu = rows[e][k].waktu]_vars

\* C7: in a pass of any sending driver, a task whose row was 'Sudah' when
\* the pass started gets no UpdateWaktu call, and its outcome is 'skipped'
C7_NeverResubmitted ==
    \A k \in Slots :
        (driver # "none" /\ startRows[k].status = "Sudah") =>
            /\ \A i \in 1..Len(calls) : calls[i].task # k
            /\ (pc = "idle" /\ report[cur].saved) => report[cur].Tasks[k].BPJSStatus = "skipped"

\* C8: in the senders that keep lastAcceptedMs, a pending slot of value v
\* with lastAcceptedMs = T: when v <= T the row of the slot holds T + 60000
\* before the call is issued and the first call carries T + 60000; when
\* v > T no row is written and the first call carries v
C8_LocalGuard ==
    [][driver # "batchAll" =>
        LET v == TimeToMillis(ordered[idx])
            T == lastAcceptedMs
        IN /\ (pc = "loop" /\ pc' = "send") =>
                /\ calls' = calls
                /\ IF v <= T
                   THEN /\ waktuMs' = T + 60000
                        /\ HasRow(rows'[cur][idx])
                        /\ rows'[cur][idx].waktu = T + 60000
                   ELSE /\ waktuMs' = v
                        /\ rows' = rows
           /\ (pc = "send" /\ pc' = "wait1") =>
                /\ calls' = Append(calls, [ref |-> cur, task |-> idx,
                                           waktu |-> waktuMs, resp |-> NoResp])
                /\ \A i \in 1..Len(calls) : calls[i].task # idx
                /\ rows' = rows]_vars

C8_Witness ==
    /\ pc = "wait1"
    /\ lastAcceptedMs > 0
    /\ TimeToMillis(ordered[idx]) <= lastAcceptedMs
    /\ calls[Len(calls)].waktu = lastAcceptedMs + 60000
    /\ rows[cur][idx].waktu = lastAcceptedMs + 60000

\* C9: the call issued after a rejection "tidak boleh kurang atau sama" is
\* for the same booking and task as the rejected one and carries the greater
\* of the rejected value and lastAcceptedMs, plus 3600000
C9_RetryValue ==
    pc = "wait2" =>
        LET n == Len(calls)
            v == calls[n - 1].waktu
            L == lastAcceptedMs
        IN /\ n >= 2
           /\ ContainsTidakBoleh(calls[n - 1].resp.message)
           /\ calls[n].ref = calls[n - 1].ref
           /\ calls[n].task = calls[n - 1].task
           /\ calls[n].waktu = (IF v > L THEN v ELSE L) + 3600000

C9_Witness ==
    /\ pc = "wait2"
    /\ lastAcceptedMs > 0
    /\ TimeToMillis(ordered[idx]) <= lastAcceptedMs
    /\ calls[Len(calls) - 1].waktu = lastAcceptedMs + 60000
    /\ calls[Len(calls)].waktu = lastAcceptedMs + 60000 + 3600000

\* the calls of the pass for task k, by their position in calls
CallsOf(k) == {i \in 1..Len(calls) : calls[i].task = k}

\* at most two calls a task, the second right after the first was rejected
\* with "tidak boleh kurang atau sama", at most 14 calls in all
OneRetry ==
    /\ Len(calls) <= 14
    /\ \A k \in Slots : Cardinality(CallsOf(k)) <= 2
    /\ \A i, j \in 1..Len(calls) :
          (i < j /\ calls[i].task = calls[j].task) =>
              /\ j = i + 1
              /\ ~calls[i].resp.err
              /\ ~IsSuccess(calls[i].resp)
              /\ ContainsTidakBoleh(calls[i].resp.message)

\* C10: within a pass a task gets at most two UpdateWaktu calls, the second
\* only after the first was rejected with "tidak boleh kurang atau sama",
\* never a third whatever the second response is; the pass issues at most 14
\* calls and ends
C10_OneRetry == []OneRetry /\ (pc # "idle" ~> pc = "idle")

C10_Witness ==
    /\ pc = "loop"
    /\ idx > 1
    /\ Cardinality(CallsOf(idx - 1)) = 2
    /\ ContainsTidakBoleh(calls[Len(calls)].resp.message)
    /\ calls[Len(calls)].task = idx - 1

\* the response that a step out of wait1 or wait2 has just received
Received == calls'[Len(calls)].resp

\* a step in which the call in flight is answered
Answers == pc \in {"wait1", "wait2"} /\ pc' # pc

\* code 208 with a message containing "sudah ada"
IsDuplicate(r) == ~r.err /\ r.code = 208 /\ ContainsSudahAda(r.message)

\* C11: when a call of a watcher pass (first attempt or retry) is answered
\* 208 with a message containing "sudah ada", the row of the task becomes
\* 'Sudah', the reported status is success, no further call is issued for
\* the task and lastAcceptedMs becomes the value that call carried
C11_Duplicate ==
    [][(Answers /\ IsDuplicate(Received)) =>
          /\ Len(calls') = Len(calls)
          /\ pc' = "loop"
          /\ idx' = idx + 1
          /\ rows'[cur][idx].status = "Sudah"
          /\ result'[idx].BPJSStatus = "success"
          /\ lastAcceptedMs' = calls[Len(calls)].waktu]_vars

C11_Witness ==
    /\ pc = "loop"
    /\ idx > 1
    /\ calls # <<>>
    /\ calls[Len(calls)].task = idx - 1
    /\ IsDuplicate(calls[Len(calls)].resp)
    /\ rows[cur][idx - 1].status = "Sudah"
    /\ result[idx - 1].BPJSStatus = "success"
    /\ lastAcceptedMs = calls[Len(calls)].waktu

\* C12: when a call of a watcher pass (first attempt or retry) returns an
\* error, the outcome of the task is failed or error with the error's text
\* as its message, no further call is issued for the task, its row stays
\* 'Belum' and lastAcceptedMs is unchanged
C12_TransportError ==
    [][(Answers /\ Received.err) =>
          /\ Len(calls') = Len(calls)
          /\ pc' = "loop"
          /\ idx' = idx + 1
          /\ result'[idx].BPJSStatus \in {"failed", "error"}
          /\ result'[idx].Message = Received.message
          /\ rows'[cur][idx].status = "Belum"
          /\ lastAcceptedMs' = lastAcceptedMs]_vars

\* a pass is between the start of its task loop and the saving of its result
InPass == pc \in {"loop", "send", "wait1", "wait2"}

\* C13: within a watcher pass every present, not completed slot that the
\* loop has gone past received a call of its own, whatever the outcome of
\* the slots before it; and the list of a poll loses an entry only when
\* processEntry is called for it, whatever the outcome of the entries before
C13_Isolation ==
    /\ [](InPass /\ driver = "watcher" =>
             \A j \in 1..(idx - 1) :
                j \in Present(ordered) \ completedTasks =>
                   \E i \in DOMAIN calls : calls[i].task = j /\ calls[i].ref = cur)
    /\ [][todo' # todo /\ todo # <<>> =>
             /\ todo' = Tail(todo)
             /\ cur' = Head(todo)
             /\ passes' = passes + 1]_vars

\* the first entry of the poll ended failed, the second one was processed
\* after it, and in its pass a slot was sent after an earlier slot had failed
C13_Witness ==
    /\ pc = "idle" /\ todo = <<>>
    /\ \A e \in DOMAIN report : report[e].saved /\ report[e].Error = ""
    /\ \E e \in DOMAIN report : e # cur /\ ~report[e].UpdateWaktuDone
    /\ \E i, j \in DOMAIN calls :
          /\ calls[i].resp.err
          /\ calls[j].task > calls[i].task

\* a watcher pass has run to its end and its result is the one saved
PassSaved == pc = "idle" /\ driver = "watcher" /\ report[cur].saved /\ report[cur].Error = ""

\* C14: at the end of a watcher pass a result is recorded for each of the
\* seven slots; a non-empty slot reported success is confirmed, one reported
\* skipped was confirmed before the pass; UpdateWaktuDone is true if and only
\* if every non-empty slot is reported success or skipped, that is, if no
\* slot is reported failed or error
C14_EntryOutcome ==
    PassSaved =>
        LET t == report[cur].Tasks
        IN /\ \A k \in Slots : t[k].BPJSStatus \in {"success", "skipped", "failed", "error"}
           /\ \A k \in Present(ordered) :
                 /\ t[k].BPJSStatus = "success" => rows[cur][k].status = "Sudah"
                 /\ t[k].BPJSStatus = "skipped" => k \in completedTasks
           /\ report[cur].UpdateWaktuDone <=>
                 \A k \in Present(ordered) : t[k].BPJSStatus \in {"success", "skipped"}
           /\ report[cur].UpdateWaktuDone <=>
                 \A k \in Slots : t[k].BPJSStatus \notin {"failed", "error"}

\* a pass ended with a slot accepted, a slot skipped as confirmed and a slot
\* failed: the flag is false
C14_Witness ==
    /\ PassSaved
    /\ ~report[cur].UpdateWaktuDone
    /\ \E i, j, k \in Present(ordered) :
          /\ report[cur].Tasks[i].BPJSStatus = "success"
          /\ report[cur].Tasks[j].BPJSStatus = "skipped"
          /\ report[cur].Tasks[k].BPJSStatus \in {"failed", "error"}

\* C15: the calls of a pass are in non-decreasing task order; a call is
\* issued only when every call before it has been answered; two calls in a
\* row carry the same task only when the second is the retry of the first,
\* which was answered "tidak boleh kurang atau sama"
C15_SubmissionOrder ==
    /\ \A i, j \in DOMAIN calls : i < j => calls[i].task <= calls[j].task
    /\ \A i \in DOMAIN calls : i < Len(calls) => calls[i].resp # NoResp
    /\ \A i, j \in DOMAIN calls :
          i < j /\ calls[i].task = calls[j].task =>
             /\ j = i + 1
             /\ ClassifyFirst(driver, calls[i].resp) = "conflict"

\* a pass that retried one task and then sent a later one
C15_Witness ==
    /\ Len(calls) >= 3
    /\ \E i \in 1..(Len(calls) - 2) :
          /\ calls[i].task = calls[i + 1].task
          /\ calls[i + 2].task > calls[i + 1].task

\* the calls of the pass that the service accepted (200, or 208 "sudah ada")
AcceptedCalls ==
    {i \in DOMAIN calls :
        calls[i].resp # NoResp
        /\ (IF i < Len(calls) /\ calls[i + 1].task = calls[i].task
            THEN FALSE
            ELSE IF i > 1 /\ calls[i - 1].task = calls[i].task
                 THEN ClassifyRetry(driver, calls[i].resp) \in {"success", "duplicate"}
                 ELSE ClassifyFirst(driver, calls[i].resp) \in {"success", "duplicate"})}

\* the values of the rows that were confirmed when the pass started
ConfirmedBefore == {startRows[k].waktu : k \in {j \in Slots : startRows[j].status = "Sudah"}}

\* C16: a watcher pass starts with lastAcceptedMs the largest value of the
\* confirmed rows (0 when there is none); lastAcceptedMs never decreases
\* during the pass; a value sent while lastAcceptedMs > 0 is greater than
\* lastAcceptedMs; the accepted values of a pass increase strictly and are
\* above every value confirmed before the pass
C16_StrictlyIncreasing ==
    /\ [][pc = "idle" /\ pc' = "loop" =>
             /\ \A k \in Slots :
                   rows'[cur'][k].status = "Sudah" => rows'[cur'][k].waktu <= lastAcceptedMs'
             /\ \/ lastAcceptedMs' = 0 /\ \A k \in Slots : rows'[cur'][k].status # "Sudah"
                \/ \E k \in Slots : /\ rows'[cur'][k].status = "Sudah"
                                    /\ rows'[cur'][k].waktu = lastAcceptedMs']_vars
    /\ [][InPass /\ InPass' => lastAcceptedMs' >= lastAcceptedMs]_vars
    /\ [][Len(calls') > Len(calls) /\ lastAcceptedMs > 0 =>
             calls'[Len(calls')].waktu > lastAcceptedMs]_vars
    /\ [](InPass \/ PassSaved =>
             /\ \A i, j \in AcceptedCalls : i < j => calls[i].waktu < calls[j].waktu
             /\ \A i \in AcceptedCalls : \A v \in ConfirmedBefore : calls[i].waktu > v)

\* a pass that started with a confirmed row, bumped a slot above
\* lastAcceptedMs and had it and a later slot accepted
C16_Witness ==
    /\ PassSaved
    /\ ConfirmedBefore # {}
    /\ \E i, j \in AcceptedCalls :
          /\ i < j
          /\ calls[i].waktu # TimeToMillis(ordered[calls[i].task])

\* the slots of a booking that its resolved timeline holds
PresentSlots(e) == UNION {Present(tl.ordered) : tl \in Timelines(e)}

\* every present slot of every booking is confirmed
Converged ==
    \A e \in DOMAIN src : \A k \in PresentSlots(e) : rows[e][k].status = "Sudah"

\* C17: with a service that accepts every submission and a transport that
\* fails MaxFaults times at most, the polls of the watcher reach a state in
\* which every present slot of the booking is confirmed (or use up the
\* MaxPasses passes of a run of the model), and no pass makes a confirmed row
\* unconfirmed
C17_Convergence ==
    /\ <>(Converged \/ passes = MaxPasses)
    /\ [][\A e \in DOMAIN rows : \A k \in Slots :
             rows[e][k].status = "Sudah" => rows'[e][k].status = "Sudah"]_vars

\* C18: a slot whose submission the service accepted while the process was
\* stopped before it handled the response is confirmed by a later pass of the
\* restarted service (or the run of the model uses up its MaxPasses passes):
\* the row is still 'Belum', the slot is sent again, the service answers 208
\* and the row becomes 'Sudah'
C18_CrashRecovery ==
    \A k \in Slots :
       (<<"R1", k>> \in lost) ~> (rows["R1"][k].status = "Sudah" \/ passes = MaxPasses)

\* C20: the process ends (the loop of Start returns, or the signal handler
\* exits) only when no pass is in progress: a pass that has started handles
\* its seven slots and saves its result first; and once stopChan is closed
\* the loop of Start returns or the process exits
C20_NoMidEntryStop ==
    /\ [](halt \in {"exited", "returned"} => ~InPass)
    /\ (halt = "stopping") ~> (halt \in {"exited", "returned"})

\* a step in which processEntry is called and returns before its task loop
Aborts == passes' = passes + 1 /\ pc' = "idle"

\* C19: when saveTaskIDs returns an error for an entry of a poll,
\* processEntry returns with no UpdateWaktu call issued, the saved result of
\* the entry carries the error's text and no success flag, and the entries
\* after it stay on the list of the poll; a result carries an error only so
C19_AbortOnlyEntry ==
    /\ [][Aborts =>
             /\ calls' = <<>>
             /\ report'[cur'].saved
             /\ report'[cur'].Error = DbError
             /\ ~report'[cur'].UpdateWaktuDone
             /\ report'[cur'].Tasks = NoTasks
             /\ todo # <<>>
             /\ cur' = Head(todo)
             /\ todo' = Tail(todo)]_vars
    /\ [][report' # report /\ report'[cur'].Error # "" => Aborts]_vars

\* saveTaskIDs failed for the first entry of the poll and the second entry
\* was then processed to its end, with a call
C19_Witness ==
    /\ pc = "idle" /\ todo = <<>>
    /\ report[cur].saved /\ report[cur].Error = ""
    /\ calls # <<>>
    /\ \E e \in DOMAIN report : e # cur /\ report[e].saved /\ report[e].Error = DbError

\* a step of a pass in which the row of the task in hand becomes 'Sudah'
Confirms == InPass /\ rows[cur][idx].status # "Sudah" /\ rows'[cur][idx].status = "Sudah"

\* C21: when a slot becomes confirmed in a watcher pass, the waktu of its
\* row is the value the accepted call carried, and so is lastAcceptedMs
C21_PersistedIsAccepted ==
    [][Confirms =>
          /\ rows'[cur][idx].waktu = calls[Len(calls)].waktu
          /\ lastAcceptedMs' = calls[Len(calls)].waktu]_vars

\* the first call of task 3 is answered "tidak boleh kurang atau sama" while
\* lastAcceptedMs is 0 and slot 4 is slot 3 plus 30 minutes
Conflict3 ==
    /\ pc = "wait1" /\ pc' = "wait2"
    /\ idx = 3
    /\ lastAcceptedMs = 0
    /\ ordered[4] = ordered[3] + 30 * MinuteMs

\* the retry of task 3 is answered 200
RetryAccepted3 ==
    /\ pc = "wait2" /\ pc' = "loop"
    /\ idx = 3
    /\ IsSuccess(Received) /\ ~Received.err

\* C22: in that case, when the retry call is issued slot 4 has been replaced
\* by a value above the retry value, slot 5 by a value above the new slot 4
\* if it was not above it already, the rows of the replaced slots hold the
\* new values, and the retry carries slot 3 plus 3600000 ms; when the retry
\* is answered 200 the row of task 3 is 'Sudah' with the retry value
C22_CascadeOrdering ==
    /\ [][Conflict3 =>
             LET retryValue == TimeToMillis(ordered[3]) + 3600000 IN
             /\ Len(calls') = Len(calls) + 1
             /\ calls'[Len(calls')].task = 3
             /\ calls'[Len(calls')].waktu = retryValue
             /\ ordered'[3] = ordered[3]
             /\ ordered'[4] > retryValue
             /\ rows'[cur][4].waktu = TimeToMillis(ordered'[4])
             /\ ordered[5] # Nil =>
                   /\ ordered'[5] > ordered'[4]
                   /\ ordered[5] <= ordered'[4] =>
                         rows'[cur][5].waktu = TimeToMillis(ordered'[5])
                   /\ ordered[5] > ordered'[4] => ordered'[5] = ordered[5]]_vars
    /\ [][RetryAccepted3 =>
             /\ rows'[cur][3].status = "Sudah"
             /\ rows'[cur][3].waktu = waktuMsRetry
             /\ rows'[cur][3].waktu = calls[Len(calls)].waktu]_vars

\* the scenario has run: task 3 was rejected with lastAcceptedMs 0, retried
\* with 10:00:00 and accepted, slots 4 and 5 having been shifted above it
C22_Witness ==
    /\ pc = "loop" /\ idx = 4
    /\ Len(calls) = 4
    /\ calls[3].task = 3 /\ ContainsTidakBoleh(calls[3].resp.message)
    /\ calls[4].task = 3 /\ calls[4].waktu = At(0, 10, 0, 0) /\ calls[4].resp = PlainOk
    /\ rows[cur][3] = [waktu |-> At(0, 10, 0, 0), status |-> "Sudah", gen |-> FALSE]
    /\ ordered[4] > At(0, 10, 0, 0) /\ rows[cur][4].waktu = ordered[4]
    /\ ordered[5] > ordered[4] /\ rows[cur][5].waktu = ordered[5]

\* the step that answers a monotonicity rejection of the task in hand: the
\* retry value is fixed, the later slots shifted if need be, the retry sent
Rejected == pc = "wait1" /\ pc' = "wait2"

\* the slots after the task in hand
Downstream == {k \in Slots : k > idx}

\* the running base of the cascade when it reaches slot k: the value the walk
\* left in the nearest present slot before k, the retry value when there is none
RunningBase(k) ==
    LET before == {j \in Downstream : j < k /\ ordered'[j] # Nil}
    IN IF before = {} THEN waktuMsRetry'
       ELSE ordered'[CHOOSE j \in before : \A i \in before : i <= j]

\* the cascade runs: some later slot is present and the retry value reaches
\* the least of them
CascadeRuns ==
    \E k \in Downstream :
        /\ ordered[k] # Nil
        /\ \A j \in Downstream : ordered[j] # Nil => ordered[k] <= ordered[j]
        /\ waktuMsRetry' >= TimeToMillis(ordered[k])

\* the slots after the first one the walk finds above its running base
AfterFirstAbove ==
    {k \in Downstream :
        \E j \in Downstream : j < k /\ ordered[j] # Nil /\ ordered[j] > RunningBase(j)}

\* C23: on a monotonicity rejection the later slots and their rows are left
\* alone unless one of them is present and the retry value reaches the least of
\* them; when the cascade runs, a slot is replaced only if its value is at most
\* the running base, and nothing changes after the first slot found above the
\* running base
C23_CascadeFrame ==
    [][Rejected =>
          /\ ~CascadeRuns =>
                \A k \in Downstream :
                    ordered'[k] = ordered[k] /\ rows'[cur][k] = rows[cur][k]
          /\ \A k \in Downstream :
                /\ ordered'[k] # ordered[k] =>
                      ordered[k] # Nil /\ ordered[k] <= RunningBase(k)
                /\ rows'[cur][k] # rows[cur][k] => ordered'[k] # ordered[k]
                /\ k \in AfterFirstAbove =>
                      ordered'[k] = ordered[k] /\ rows'[cur][k] = rows[cur][k]
          /\ \A k \in Slots \ Downstream : ordered'[k] = ordered[k]]_vars

\* task 1 (08:00) was rejected and is retried with 09:00: tasks 2 and 3 were
\* moved behind it, task 4 (09:30) was found above the running base and tasks
\* 4 and 5 kept their values
C23_Witness ==
    /\ pc = "wait2" /\ idx = 1 /\ waktuMsRetry = At(0, 9, 0, 0)
    /\ src[cur].obs = Recorded
    /\ ordered[2] = At(0, 9, 1, 0) /\ rows[cur][2].waktu = At(0, 9, 1, 0)
    /\ ordered[3] > ordered[2] /\ ordered[3] < At(0, 9, 30, 0)
    /\ rows[cur][3].waktu = ordered[3]
    /\ ordered[4] = At(0, 9, 30, 0) /\ rows[cur][4].waktu = At(0, 9, 30, 0)
    /\ ordered[5] = At(0, 9, 45, 0) /\ rows[cur][5].waktu = At(0, 9, 45, 0)

\* the step of processEntry that rebuilds the timeline of booking e and
\* enters the task loop
Rebuilds(e) == pc = "idle" /\ pc' = "loop" /\ driver' = "watcher" /\ cur' = e

\* C24: in the timeline a watcher pass gets from ProcessTasks, every slot
\* whose row is 'Sudah' holds the waktu of that row: a confirmed slot is not
\* floored, shifted or cleared
C24_ConfirmedPassThrough ==
    [][\A e \in DOMAIN rows : Rebuilds(e) =>
          \A k \in Slots :
              rows[e][k].status = "Sudah" =>
                  ordered'[k] = MillisToTime(rows[e][k].waktu)]_vars

\* the timelines fetchTaskTimes would hand to ProcessTasks if it copied the
\* 'Sudah' rows only and resolved every other slot from the origin records
FreshTimelines(e) ==
    {[k \in Slots |->
         IF rows[e][k].status = "Sudah" THEN MillisToTime(rows[e][k].waktu) ELSE sg.tasks[k]]
        : sg \in getTaskTimesFromSources(src[e])}

\* C25: the timeline of a watcher pass is ProcessTasks applied to the 'Sudah'
\* rows and, for every other slot, to the value resolved in this pass from
\* the origin records: a persisted pending value plays no part
C25_PendingRecomputed ==
    [][\A e \in DOMAIN rows : Rebuilds(e) =>
          \E fresh \in FreshTimelines(e) : ordered' \in ProcessTasks(fresh)]_vars

\* the booking of Scenario A resolved with the offsets 3, 3 and 10, and
\* ProcessTasks applied
ScenarioADone ==
    /\ seqPc = "once"
    /\ src[cur].obs[1] = At(0, 7, 50, 0) /\ src[cur].obs[2] = At(0, 7, 55, 0)
    /\ \A k \in 3..7 : src[cur].obs[k] = Nil
    /\ seqIn[3] = seqIn[2] + 3 * MinuteMs
    /\ seqIn[4] = seqIn[3] + 3 * MinuteMs
    /\ seqIn[5] = seqIn[4] + 10 * MinuteMs

\* C26: Scenario A, loket 07:50 to 07:55 and nothing else recorded, the
\* offsets fixed to 3, 3 and 10: the final timeline has slot 1 = 08:00:00,
\* slot 2 = slot 1 + 1..5 minutes, slot 3 = slot 2 + 3 minutes, slot 4 =
\* slot 3 + 3 minutes, slot 5 = slot 4 + 10 minutes, is strictly increasing
\* and has no slot 6 or 7
C26_ScenarioA ==
    ScenarioADone =>
        /\ seqOut[1] = At(0, 8, 0, 0)
        /\ seqOut[2] \in {seqOut[1] + r * MinuteMs : r \in 1..5}
        /\ seqOut[3] = seqOut[2] + 3 * MinuteMs
        /\ seqOut[4] = seqOut[3] + 3 * MinuteMs
        /\ seqOut[5] = seqOut[4] + 10 * MinuteMs
        /\ \A i \in 1..4 : seqOut[i] < seqOut[i + 1]
        /\ seqOut[6] = Nil /\ seqOut[7] = Nil

\* the timeline step 3 of ProcessTasks works on
Floored == FloorAll(ClearEqualPair(seqIn))

\* step 3 applies: tasks 3 and 4 are present and task 4 is not after task 3
Task4NotAfter3 == Floored[3] # Nil /\ Floored[4] # Nil /\ Floored[4] <= Floored[3]

\* what the rule allows for slot 4: slot 3 + r minutes for a draw r of 1..5 that
\* stays below slot 5, and slot 3 + max(1, floor(minutes to slot 5) - 1)
\* minutes when some draw reaches slot 5
Slot4Rule(t) ==
    LET drawn == {t[3] + r * MinuteMs : r \in 1..5}
        room == ((t[5] - t[3]) \div MinuteMs) - 1
        capped == t[3] + (IF room < 1 THEN 1 ELSE room) * MinuteMs
    IN IF t[5] = Nil THEN drawn
       ELSE {v \in drawn : v < t[5]} \cup (IF \E v \in drawn : v >= t[5] THEN {capped} ELSE {})

\* C27: when tasks 3 and 4 are present and task 4 is not after task 3, step 3
\* of ProcessTasks leaves slot 3 alone and sets slot 4 to slot 3 + r minutes,
\* r in 1..5, or, slot 5 being present and reached, to slot 3 +
\* max(1, floor(minutes from slot 3 to slot 5) - 1) minutes; that is the
\* slot 4 returned whenever the later steps do not move slot 3.  Slots 3, 4,
\* 5 = 09:00, 09:00, 09:30 give slot 4 in 09:01..09:05 and slot 5 unchanged
C27_Task4After3 ==
    /\ seqPc \in {"input", "once"} /\ Task4NotAfter3 =>
          \A u \in OrderTask4(Floored) :
              /\ u[4] \in Slot4Rule(Floored)
              /\ \A k \in Slots \ {4} : u[k] = Floored[k]
    /\ seqPc = "once" /\ Task4NotAfter3 /\ seqOut[3] = Floored[3] =>
          seqOut[4] \in Slot4Rule(Floored)
    /\ seqPc = "once" /\ seqIn = Middle(At(0, 9, 0, 0), At(0, 9, 0, 0), At(0, 9, 30, 0)) =>
          /\ seqOut[3] = At(0, 9, 0, 0)
          /\ seqOut[4] \in {At(0, 9, r, 0) : r \in 1..5}
          /\ seqOut[5] = At(0, 9, 30, 0)

\* Scenario B with the draw 2
C27_Witness ==
    /\ seqPc = "once"
    /\ seqIn[3] = At(0, 9, 0, 0) /\ seqIn[4] = At(0, 9, 0, 0) /\ seqIn[5] = At(0, 9, 30, 0)
    /\ seqOut[3] = At(0, 9, 0, 0) /\ seqOut[4] = At(0, 9, 2, 0) /\ seqOut[5] = At(0, 9, 30, 0)

\* C28: a slot 4 generated from a present slot 3 while slot 5 is present is
\* after slot 3 and at least one minute before slot 5
C28_Task4BelowTask5 ==
    seqPc \in {"input", "once"} /\ seqGen[4] /\ seqIn[3] # Nil /\ seqIn[5] # Nil /\ ~seqGen[5] =>
        /\ seqIn[4] > seqIn[3]
        /\ seqIn[4] <= seqIn[5] - MinuteMs

\* fetchTaskTimes has returned
Resolved == seqPc \in {"input", "once"}

\* the first present of slots a and b, else the default time
BaseOf(a, b) ==
    IF seqIn[a] # Nil THEN seqIn[a] ELSE IF seqIn[b] # Nil THEN seqIn[b] ELSE src[cur].def

\* C29: a generated slot 3 is slot 2 (else slot 1, else the default time)
\* plus 1..5 minutes; a generated slot 5 is slot 4 (else slot 3, else the
\* default time) plus 10..25 minutes; slot 3 is generated first, then slot 4
\* from it, then slot 5
C29_SynthesisRanges ==
    Resolved =>
        /\ seqGen[3] => seqIn[3] \in {BaseOf(2, 1) + k * MinuteMs : k \in 1..5}
        /\ seqGen[5] => seqIn[5] \in {BaseOf(4, 3) + k * MinuteMs : k \in 10..25}
        /\ seqGen[3] /\ seqGen[4] /\ seqGen[5] =>
              seqIn[4] \in {seqIn[3] + k * MinuteMs : k \in 1..10}
        /\ seqGen[4] /\ seqGen[5] => seqIn[5] >= seqIn[4] + 10 * MinuteMs

\* loket 07:50 to 07:55: slot 3 generated 5 minutes after slot 2 and not
\* after slot 1, slot 4 ten minutes later, slot 5 25 minutes after slot 4
C29_Witness ==
    /\ Resolved
    /\ seqGen[3] /\ seqGen[4] /\ seqGen[5]
    /\ seqIn[1] = At(0, 7, 50, 0) /\ seqIn[2] = At(0, 7, 55, 0)
    /\ seqIn[3] = At(0, 8, 0, 0)
    /\ seqIn[4] = At(0, 8, 10, 0)
    /\ seqIn[5] = At(0, 8, 35, 0)

\* slot k of the booking in hand has a value in its origin record
FromOrigin(k) == src[cur].obs[k] # Nil

\* slot k has a persisted value
FromRow(k) == HasRow(rows[cur][k]) /\ rows[cur][k].waktu > 0

\* C30: of the timeline fetchTaskTimes returns, the slots flagged generated are
\* exactly those whose value the fallback produced, which have neither an
\* origin record nor a row and are among 3, 4, 5; slots 1, 2, 6, 7 are never
\* flagged, and slots 6 and 7 without resep_obat and without a row stay nil
C30_GeneratedFlags ==
    Resolved =>
        /\ \A k \in Slots :
              seqGen[k] <=>
                  k \in 3..5 /\ seqIn[k] # Nil /\ ~FromOrigin(k) /\ ~FromRow(k)
        /\ \A k \in {1, 2, 6, 7} : ~seqGen[k]
        /\ \A k \in {6, 7} : ~FromOrigin(k) /\ ~FromRow(k) => seqIn[k] = Nil
        /\ \A k \in Slots : FromRow(k) => seqIn[k] = MillisToTime(rows[cur][k].waktu)
        /\ \A k \in Slots : FromOrigin(k) /\ ~FromRow(k) => seqIn[k] = src[cur].obs[k]

\* dikirim 09:00 and the examination at 09:05 are recorded, diterima is not:
\* slot 4 alone is flagged, slots 1 and 2 hold the default time, 6 and 7 are nil
C30_Witness ==
    /\ Resolved
    /\ src[cur].obs = Middle(At(0, 9, 0, 0), Nil, At(0, 9, 5, 0))
    /\ seqIn[1] = src[cur].def /\ seqIn[2] = src[cur].def
    /\ seqIn[3] = At(0, 9, 0, 0) /\ seqIn[4] = At(0, 9, 4, 0) /\ seqIn[5] = At(0, 9, 5, 0)
    /\ seqIn[6] = Nil /\ seqIn[7] = Nil
    /\ seqGen = [NoFlags EXCEPT ![4] = TRUE]

\* a retryable conflict: not accepted, not a duplicate, and the message
\* contains "tidak boleh kurang atau sama", whatever the code
IsConflict(r) ==
    ~IsSuccess(r) /\ ~IsDuplicate(r) /\ ContainsTidakBoleh(r.message)

\* a retryable conflict when code 208 without "sudah ada" is always terminal
IsConflictNot208(r) == IsConflict(r) /\ r.code # 208

\* what the watcher does with a parsed response, the retryable conflicts being
\* given by the set Retryable: the row becomes 'Sudah' exactly for code 200 and
\* for a duplicate; the first response is followed by a retry exactly when it
\* is a retryable conflict; any other first response ends the task 'failed'
\* with no further call; the response of a retry is never followed by a call
ClassifiedWith(Retryable(_)) ==
    Answers /\ driver = "watcher" /\ ~Received.err =>
        LET r == Received
            accepted == IsSuccess(r) \/ IsDuplicate(r)
            retried == pc' = "wait2" /\ Len(calls') = Len(calls) + 1
        IN /\ rows'[cur][idx].status = "Sudah" <=> accepted
           /\ accepted => result'[idx].BPJSStatus = "success"
           /\ pc = "wait1" => (retried <=> Retryable(r))
           /\ pc = "wait1" /\ ~accepted /\ ~Retryable(r) =>
                 /\ result'[idx].BPJSStatus = "failed"
                 /\ Len(calls') = Len(calls)
           /\ pc = "wait2" => Len(calls') = Len(calls)

\* C31, as amended: every parsed response is accepted (code 200), an accepted
\* duplicate (code 208 with "sudah ada"), a retryable conflict (any other
\* response whose message contains "tidak boleh kurang atau sama", code 208
\* included) or a terminal failure (everything else); only the first two mark
\* the row 'Sudah' and only the third, as a first response, triggers a retry
C31_Classification == [][ClassifiedWith(IsConflict)]_vars

\* C31 as stated: code 208 without "sudah ada" is always a terminal failure
C31_Original == [][ClassifiedWith(IsConflictNot208)]_vars

\* a first response 208 "Waktu tidak boleh kurang atau sama" is being retried
C31_Witness ==
    /\ pc = "wait2" /\ driver = "watcher"
    /\ Len(calls) >= 2
    /\ calls[Len(calls) - 1].resp.code = 208
    /\ ContainsTidakBoleh(calls[Len(calls) - 1].resp.message)
    /\ calls[Len(calls)].task = calls[Len(calls) - 1].task

\* C32: nil converts to 0 and 0 to nil; a non-zero millisecond value made a
\* time and converted again is the same value; a time that is set, converted
\* to milliseconds and back, is the same instant
C32_RoundTrip ==
    /\ TimeToMillis(Nil) = 0 /\ MillisToTime(0) = Nil
    /\ seqPc = "back" =>
          \A k \in Slots :
              /\ seqIn[k] = Nil => seqOut[k] = 0 /\ seqOut2[k] = Nil
              /\ seqOut[k] # 0 => TimeToMillis(seqOut2[k]) = seqOut[k]
              /\ seqIn[k] # Nil => seqOut2[k] = seqIn[k]

\* the bookings that have a result in the file of the day
Filed == {file[i].ref : i \in 1..Len(file)}

\* the goroutine taking steps has come back from a processEntry(e)
EndedHere(e) == pc = "idle" /\ driver # "none" /\ cur = e

\* the other goroutine has
EndedThere(e) == parked.pc = "idle" /\ parked.driver # "none" /\ parked.cur = e

\* C40: the file of the day never holds two results of one nomor_referensi; a
\* SaveResult leaves the result it was given as the stored result of its
\* nomor_referensi; and once the SaveResult calls of two goroutines for two
\* different bookings have both returned, both bookings have a result in the file
C40_StoreKeepsAll ==
    /\ [](\A i, j \in 1..Len(file) : file[i].ref = file[j].ref => i = j)
    /\ [][pc = "save" /\ pc' = "idle" /\ parked' = parked =>
             /\ report'[cur].saved
             /\ report'[cur].Tasks = result
             /\ report'[cur].UpdateWaktuDone = allSuccess]_vars
    /\ [](\A e, f \in DOMAIN src :
             e # f /\ EndedHere(e) /\ EndedThere(f) => {e, f} \subseteq Filed)

\* C33: with two goroutines each running processEntry for a booking of its
\* own, a step changes the rows of the booking of the goroutine that takes it
\* and no other, a pass starts from the rows of its own booking, and when both
\* passes have ended each booking has the outcome its own pass produced, as
\* after running the two passes one after the other: its result is stored and
\* its rows are 'Sudah' for the tasks that pass reported as success
C33_IndependentEntries ==
    /\ [][\A e \in DOMAIN rows : rows'[e] # rows[e] => e = cur']_vars
    /\ [][pc = "idle" /\ pc' = "loop" /\ parked' = parked =>
             /\ completedTasks' = getCompletedTaskIDs(rows'[cur'])
             /\ lastAcceptedMs' = getMaxSentTime(rows'[cur'])]_vars
    /\ [](\A e, f \in DOMAIN src :
             e # f /\ EndedHere(e) /\ EndedThere(f) =>
                 /\ report[e].saved /\ report[e].Tasks = result
                 /\ report[f].saved /\ report[f].Tasks = parked.result
                 /\ \A k \in Slots :
                       /\ result[k].BPJSStatus = "success" => rows[e][k].status = "Sudah"
                       /\ parked.result[k].BPJSStatus = "success" => rows[f][k].status = "Sudah")

\* C34: when the cascade has run on a rejection of the task in hand, every
\* present later slot is above the retry value and the present later slots
\* increase strictly with their index; every slot the cascade changed holds its
\* new value in its persisted row; the slots up to the task in hand and the
\* absent slots are as they were
C34_CascadePostcondition ==
    [][Rejected /\ CascadeRuns =>
          /\ \A k \in Downstream :
                ordered'[k] # Nil => TimeToMillis(ordered'[k]) > waktuMsRetry'
          /\ \A j, k \in Downstream :
                j < k /\ ordered'[j] # Nil /\ ordered'[k] # Nil => ordered'[j] < ordered'[k]
          /\ \A k \in Downstream :
                ordered'[k] # ordered[k] =>
                    rows'[cur][k].waktu = TimeToMillis(ordered'[k])
          /\ \A k \in Slots \ Downstream : ordered'[k] = ordered[k]
          /\ \A k \in Slots : ordered[k] = Nil => ordered'[k] = Nil]_vars

\* C35: the confirmed rows of an entry are ordered by task index: whenever the
\* rows of two tasks i < j of one entry are both 'Sudah', the value of row i is
\* below the value of row j
C35_ConfirmedOrdered ==
    \A e \in DOMAIN rows : \A i, j \in Slots :
        i < j /\ rows[e][i].status = "Sudah" /\ rows[e][j].status = "Sudah" =>
            rows[e][i].waktu < rows[e][j].waktu

\* the step of a watcher pass that reports the task in hand as success
ReportsSuccess ==
    /\ driver = "watcher"
    /\ pc \in {"wait1", "wait2"} /\ pc' = "loop"
    /\ result'[idx].BPJSStatus = "success"

\* C36: when a watcher pass reports a task as success, the Waktu of its
\* result is the text of the timestamp carried by the call the service
\* accepted, and its code is the code of the accepted response
C36_ReportedIsSubmitted ==
    [][ReportsSuccess =>
          /\ result'[idx].Waktu = FormatTime(MillisToTime(calls[Len(calls)].waktu))
          /\ result'[idx].BPJSCode = calls'[Len(calls')].resp.code]_vars

\* out is in with no slot moved earlier, no slot added and none of tasks 1..5
\* dropped
NeverEarlier(in, out) ==
    \A k \in Slots :
        /\ out[k] # Nil => in[k] # Nil /\ out[k] >= in[k]
        /\ k <= 5 /\ in[k] # Nil => out[k] # Nil

\* C37: for every input timeline and every draw, a slot present in the result
\* of ProcessTasks is at or after its input value, each of tasks 1..5 present
\* in the input is present in the result, and a slot absent in the input is
\* absent in the result; the same holds when ProcessTasks is applied again
C37_SeqNeverEarlier ==
    /\ seqPc \in {"once", "twice"} => NeverEarlier(seqIn, seqOut)
    /\ seqPc = "twice" => NeverEarlier(seqOut, seqOut2)

\* C37 witness: task 1 at 07:50 came out at 08:00, task 4 at or before task 3
\* came out after its input value, the absent task 2 stayed absent and the
\* prescription pair was dropped
C37_Witness ==
    /\ seqPc = "once"
    /\ seqIn[1] = At(0, 7, 50, 0) /\ seqOut[1] = At(0, 8, 0, 0)
    /\ seqIn[2] = Nil /\ seqOut[2] = Nil
    /\ seqIn[3] = At(0, 9, 3, 30) /\ seqIn[4] = At(0, 9, 0, 0) /\ seqOut[4] > seqIn[4]
    /\ seqIn[6] # Nil /\ seqIn[7] = Nil /\ seqOut[6] = Nil

\* a poll of the watcher may start: no pass in progress, the list of the last
\* poll used up, the process alive
MayPoll == pc = "idle" /\ todo = <<>> /\ Running

\* C38: whenever a poll of the watcher may start, every booking that has a
\* present slot not confirmed, the slots 6 and 7 included, is among the
\* entries fetchPendingEntries returns; a booking is left out only when none
\* of its present slots is unconfirmed
C38_SelectionCovers ==
    MayPoll =>
        \A e \in DOMAIN src :
            (\E k \in PresentSlots(e) : rows[e][k].status # "Sudah") =>
                e \in fetchPendingEntries

\* the locals of the goroutine of the watcher and of that of the batch command
OfWatcher == IF driver = "watcher" THEN Locals ELSE parked

OfBatch == IF driver = "batchUpdate" THEN Locals ELSE parked

\* the watcher has handled R1 and BatchUpdateWaktu has handled R2
BothEnded ==
    /\ OfWatcher.driver = "watcher" /\ OfWatcher.pc = "idle" /\ OfWatcher.cur = "R1"
    /\ OfBatch.driver = "batchUpdate" /\ OfBatch.pc = "idle" /\ OfBatch.cur = "R2"

\* the two loops were given the same responses, call after call
SameResponses ==
    \A i \in 1..Len(OfWatcher.calls) :
        i <= Len(OfBatch.calls) => OfWatcher.calls[i].resp = OfBatch.calls[i].resp

\* adjustForward, where it ran, drew the same numbers in both loops: the two
\* timelines ended equal
SameDraws == OfWatcher.ordered = OfBatch.ordered

\* the task and the value of each UpdateWaktu call, in order
Sent(cs) == [i \in 1..Len(cs) |-> <<cs[i].task, cs[i].waktu>>]

\* C39: started on the same timeline and the same rows and given the same
\* responses and the same random draws, the loop of BatchUpdateWaktu issues
\* the UpdateWaktu calls of Watcher.processEntry, task by task and value by
\* value, and leaves the same tasks confirmed with the same persisted values
C39_BatchAgreesWithWatcher ==
    BothEnded /\ SameResponses /\ SameDraws =>
        /\ Sent(OfBatch.calls) = Sent(OfWatcher.calls)
        /\ \A k \in Slots :
              /\ rows["R2"][k].status = "Sudah" <=> rows["R1"][k].status = "Sudah"
              /\ rows["R1"][k].status = "Sudah" => rows["R2"][k].waktu = rows["R1"][k].waktu
====
